---------------------------- MODULE Spec2Model ----------------------------
(***************************************************************************)
(* A model of the streaming delivery pipeline of the Telegram bot:         *)
(*   TokenBucket, BackoffStrategy, AdvancedRateLimiter                     *)
(*                                  (src/src/telegram/types.ts)            *)
(*   TelegramErrorAnalyzer, ErrorRecoveryExecutor,                         *)
(*   StreamErrorRecoveryManager     (src/unnamed/part_000)                 *)
(*   TelegramStreamHandler          (src/src/telegram/messaging/           *)
(*                                   formatters/base.ts)                   *)
(*                                                                         *)
(* Time is Date.now() in milliseconds.  A token count is a real number in  *)
(* the code; the model stores it exactly, as an integer number of          *)
(* 1/TokenScale tokens.                                                    *)
(***************************************************************************)
EXTENDS Integers, Sequences, FiniteSets, TLC

VARIABLES
    now,        \* Date.now(), in ms
    bucket,     \* a stand-alone TokenBucket: [tokens, lastRefillTime]
    ret,        \* the last call on the stand-alone objects and what it returned
    consecutiveFailures,  \* a stand-alone BackoffStrategy's failure streak
    limiters,   \* the AdvancedRateLimiter instances, by number
    handler,    \* a TelegramStreamHandler and its calls that are under way
    sink,       \* the Telegram API: the requests in flight and its counters
    manager     \* the StreamStateManager: sessions, contexts, owners' session sets

\* the variables of the stand-alone TokenBucket and BackoffStrategy
standaloneVars == <<bucket, ret, consecutiveFailures>>
\* the variables of the rate limiters and of what drives them
pipelineVars == <<limiters, handler, sink, manager>>
\* the variables of the stream handler and of the API it calls
handlerVars == <<handler, sink, manager>>
vars == <<now, bucket, ret, consecutiveFailures, limiters, handler, sink, manager>>

\* no stream handler has been constructed, and nothing calls the API
NoHandler == <<>>
NoSink == <<>>
\* no state manager has been constructed
NoManager == <<>>

(***************************************************************************)
(* Bounds of the model and configuration                                   *)
(***************************************************************************)
\* RateLimitConfig.bucketCapacity, in tokens (a configuration value)
BucketCapacity == 2
\* RateLimitConfig.refillRate = RefillRateNum / RefillRateDen tokens per second
RefillRateNum == 1
RefillRateDen == 2
\* the clock is observed up to MaxTime, in steps of ClockStep ms
ClockStep == 500
MaxTime == 6000
\* the largest count passed to consume / getNextTokenTime
MaxCount == 3
\* RateLimitConfig.baseBackoffDelay and maxBackoffDelay, in ms (configuration values)
BaseBackoffDelay == 500
MaxBackoffDelay == 1500
\* the longest failure streak a stand-alone BackoffStrategy is driven to
MaxFailures == 5
\* RateLimitConfig.maxQueueSize (a configuration value)
MaxQueueSize == 2
\* the number of execute() calls made on a limiter driven on its own
MaxSubmit == 4
\* the clock of a limiter is observed for LimiterTicks steps
LimiterTicks == 1
\* the number of failing executions of operations on a limiter driven on its own
MaxOpFailures == 1
\* the clock of a limiter is observed in steps of LimiterClockStep ms
LimiterClockStep == 2000
\* RequestPriority
LOW == 0
NORMAL == 1
HIGH == 2
URGENT == 3
\* the retry limit written into executeRequest
LimiterMaxRetries == 3

\* tokens are stored as multiples of 1/TokenScale: timePassed(ms)/1000 * refillRate
\* is then the integer timePassed * RefillRateNum
TokenScale == 1000 * RefillRateDen

Min(a, b) == IF a <= b THEN a ELSE b
Max(a, b) == IF a >= b THEN a ELSE b
\* Math.ceil(a / b) for a >= 0, b > 0
CeilDiv(a, b) == (a + b - 1) \div b

Times == { t \in 0..MaxTime : t % ClockStep = 0 }

(***************************************************************************)
(* TokenBucket                                                             *)
(***************************************************************************)
\* constructor, and reset(): a full bucket, refilled at time t
TokenBucket_new(t) ==
    [tokens |-> BucketCapacity * TokenScale, lastRefillTime |-> t]

\* a refill that adds the elapsed time's tokens whatever its sign
TokenBucket_refill_unguarded(b, t) ==
    [tokens |-> Min(BucketCapacity * TokenScale,
                    b.tokens + (t - b.lastRefillTime) * RefillRateNum),
     lastRefillTime |-> t]

\* refill(): lazily add the tokens of the time passed since the last refill
TokenBucket_refill(b, t) ==
    IF t - b.lastRefillTime > 0
    THEN [tokens |-> Min(BucketCapacity * TokenScale,
                         b.tokens + (t - b.lastRefillTime) * RefillRateNum),
          lastRefillTime |-> t]
    ELSE b

\* a consume that takes what is there when the count is not available
TokenBucket_consume_partial(b, t, count) ==
    LET r == TokenBucket_refill(b, t) IN
    IF r.tokens >= count * TokenScale
    THEN [bucket |-> [r EXCEPT !.tokens = @ - count * TokenScale], ok |-> TRUE]
    ELSE [bucket |-> [r EXCEPT !.tokens = 0], ok |-> FALSE]

\* consume(count): the bucket afterwards and the value returned
TokenBucket_consume(b, t, count) ==
    LET r == TokenBucket_refill(b, t) IN
    IF r.tokens >= count * TokenScale
    THEN [bucket |-> [r EXCEPT !.tokens = @ - count * TokenScale], ok |-> TRUE]
    ELSE [bucket |-> r, ok |-> FALSE]

\* getAvailableTokens(): refills, returns the (scaled) count
TokenBucket_getAvailableTokens(b, t) ==
    LET r == TokenBucket_refill(b, t) IN [bucket |-> r, value |-> r.tokens]

\* getNextTokenTime(requiredTokens): refills, returns the wait in ms
TokenBucket_getNextTokenTime(b, t, requiredTokens) ==
    LET r == TokenBucket_refill(b, t)
        tokensNeeded == requiredTokens * TokenScale - r.tokens
    IN  [bucket |-> r,
         value |-> IF r.tokens >= requiredTokens * TokenScale
                   THEN 0
                   ELSE CeilDiv(tokensNeeded * RefillRateDen,
                                TokenScale * RefillRateNum) * 1000]

(***************************************************************************)
(* SpecBucket: one TokenBucket driven by arbitrary calls and clock changes *)
(***************************************************************************)
NoCall == [op |-> "none", arg |-> 0, value |-> 0]

\* the wall clock advances
Tick ==
    /\ \E t \in Times : t > now /\ now' = t
    /\ ret' = [op |-> "tick", arg |-> 0, value |-> 0]
    /\ UNCHANGED <<bucket, consecutiveFailures, pipelineVars>>

\* the wall clock is set back (Date.now() is not monotonic)
ClockSetBack ==
    /\ \E t \in Times : t < now /\ now' = t
    /\ ret' = [op |-> "clock", arg |-> 0, value |-> 0]
    /\ UNCHANGED <<bucket, consecutiveFailures, pipelineVars>>

BucketConsume(count) ==
    LET c == TokenBucket_consume(bucket, now, count) IN
    /\ bucket' = c.bucket
    /\ ret' = [op |-> "consume", arg |-> count, value |-> c.ok]
    /\ UNCHANGED <<now, consecutiveFailures, pipelineVars>>

BucketGetAvailableTokens ==
    LET c == TokenBucket_getAvailableTokens(bucket, now) IN
    /\ bucket' = c.bucket
    /\ ret' = [op |-> "getAvailableTokens", arg |-> 0, value |-> c.value]
    /\ UNCHANGED <<now, consecutiveFailures, pipelineVars>>

BucketGetNextTokenTime(count) ==
    LET c == TokenBucket_getNextTokenTime(bucket, now, count) IN
    /\ bucket' = c.bucket
    /\ ret' = [op |-> "getNextTokenTime", arg |-> count, value |-> c.value]
    /\ UNCHANGED <<now, consecutiveFailures, pipelineVars>>

BucketReset ==
    /\ bucket' = TokenBucket_new(now)
    /\ ret' = [op |-> "reset", arg |-> 0, value |-> 0]
    /\ UNCHANGED <<now, consecutiveFailures, pipelineVars>>

InitBucket ==
    /\ now \in Times
    /\ bucket = TokenBucket_new(now)
    /\ ret = NoCall
    /\ consecutiveFailures = 0
    /\ limiters = <<>>
    /\ handler = NoHandler
    /\ sink = NoSink
    /\ manager = NoManager

NextBucket ==
    \/ Tick
    \/ ClockSetBack
    \/ \E count \in 1..MaxCount : BucketConsume(count)
    \/ BucketGetAvailableTokens
    \/ \E count \in 1..MaxCount : BucketGetNextTokenTime(count)
    \/ BucketReset

SpecBucket == InitBucket /\ [][NextBucket]_vars

(***************************************************************************)
(* C1: the stored token count of a TokenBucket is never negative and never *)
(* exceeds bucketCapacity, whatever calls and clock changes are            *)
(* interleaved.                                                            *)
(***************************************************************************)
TokensWithinCapacity ==
    /\ bucket.tokens >= 0
    /\ bucket.tokens <= BucketCapacity * TokenScale

\* the bucket has been drained, refilled in part and drained again
TokensWithinCapacityWitness ==
    /\ ret.op = "consume" /\ ret.value = TRUE
    /\ bucket.tokens > 0
    /\ bucket.tokens < TokenScale
    /\ bucket.lastRefillTime > 0

(***************************************************************************)
(* C2: consume(n) is all or nothing.  With t the token count after the     *)
(* lazy refill: if t < n it returns false and leaves t tokens, otherwise   *)
(* it returns true and leaves exactly t - n.                               *)
(***************************************************************************)
ConsumeAllOrNothing ==
    [][ret'.op = "consume" =>
         LET t == TokenBucket_refill(bucket, now).tokens
             n == ret'.arg * TokenScale
         IN  IF t < n
             THEN ret'.value = FALSE /\ bucket'.tokens = t
             ELSE ret'.value = TRUE /\ bucket'.tokens = t - n]_vars

\* a consume was refused although some tokens were there
ConsumeAllOrNothingWitness ==
    /\ ret.op = "consume" /\ ret.value = FALSE
    /\ bucket.tokens > 0

(***************************************************************************)
(* Error messages.  The code tests error.message.toLowerCase() with        *)
(* includes(marker); a message is modelled by the text it stands for and   *)
(* the markers that its lower-case form contains.                          *)
(***************************************************************************)
MsgRateLimit == "rate limit exceeded"
MsgTooManyRequests == "API request failed: 429 Too Many Requests - retry after 5"
MsgEditNotFound == "Telegram API error: Bad Request: message to edit not found (Code: 400)"
MsgDeleted == "Telegram API error: Bad Request: message was deleted (Code: 400)"
MsgNoRights == "Telegram API error: Forbidden: not enough rights to send text messages (Code: 403)"
MsgBlocked == "Telegram API error: Forbidden: bot was blocked by the user (Code: 403)"
MsgChatNotFound == "Telegram API error: Bad Request: chat not found (Code: 400)"
MsgNetworkTimeout == "network timeout"
MsgBadGateway == "API request failed: 502 Bad Gateway - "
MsgInternalServerError == "API request failed: 500 Internal Server Error - "
MsgCantParse == "Telegram API error: Bad Request: can't parse entities (Code: 400)"
MsgFetchFailed == "fetch failed"
\* the errors the limiter itself rejects with (types.ts, lines 586 and 733)
MsgQueueFull == "Request queue is full"
MsgDisposed == "Rate limiter disposed"
\* further messages of makeApiRequest (base.ts, lines 1837 and 1849) and of fetch
MsgNotModified == "Telegram API error: Bad Request: message is not modified (Code: 400)"
MsgMessageIdInvalid == "Telegram API error: Bad Request: MESSAGE_ID_INVALID (Code: 400)"
MsgDeleteNotFound == "Telegram API error: Bad Request: message to delete not found (Code: 400)"
MsgDeactivated == "Telegram API error: Forbidden: user is deactivated (Code: 403)"
MsgHttpEditNotFound == "API request failed: 400 Bad Request - Bad Request: message to edit not found"
MsgFloodWait == "Telegram API error: Too Many Requests: retry after 5 (Code: 429)"
MsgServiceUnavailable == "API request failed: 503 Service Unavailable - "
MsgGatewayTimeout == "API request failed: 504 Gateway Timeout - "
MsgConnectionRefused == "connection refused"
MsgUnknownError == "Telegram API error: Unknown error (Code: undefined)"

ErrorMessages ==
    { MsgRateLimit, MsgTooManyRequests, MsgEditNotFound, MsgDeleted, MsgNoRights,
      MsgBlocked, MsgChatNotFound, MsgNetworkTimeout, MsgBadGateway,
      MsgInternalServerError, MsgCantParse, MsgFetchFailed }

\* the markers tested anywhere in the code that message.toLowerCase() contains
MarkersOf(message) ==
    CASE message = MsgRateLimit -> {"rate limit"}
      [] message = MsgTooManyRequests -> {"too many requests", "429"}
      [] message = MsgEditNotFound -> {"message to edit not found", "bad request"}
      [] message = MsgDeleted -> {"message was deleted", "bad request"}
      [] message = MsgNoRights -> {"forbidden", "not enough rights"}
      [] message = MsgBlocked -> {"forbidden", "bot was blocked"}
      [] message = MsgChatNotFound -> {"chat not found", "bad request"}
      [] message = MsgNetworkTimeout -> {"timeout", "network"}
      [] message = MsgBadGateway -> {"502"}
      [] message = MsgInternalServerError ->
             {"500", "internal server error", "server error"}
      [] message = MsgCantParse -> {"bad request", "can't parse"}
      [] message = MsgDisposed -> {"rate limit"}
      [] message = MsgNotModified -> {"message is not modified", "bad request"}
      [] message = MsgMessageIdInvalid -> {"message_id_invalid", "bad request"}
      [] message = MsgDeleteNotFound -> {"message to delete not found", "bad request"}
      [] message = MsgDeactivated -> {"forbidden", "user is deactivated"}
      [] message = MsgHttpEditNotFound -> {"message to edit not found", "bad request"}
      [] message = MsgFloodWait -> {"too many requests", "429"}
      [] message = MsgServiceUnavailable -> {"503"}
      [] message = MsgGatewayTimeout -> {"504", "timeout"}
      [] message = MsgConnectionRefused -> {"connection"}
      [] OTHER -> {}

\* message.toLowerCase().includes(marker)
Includes(message, marker) == marker \in MarkersOf(message)

(***************************************************************************)
(* BackoffStrategy.  A multiplier is kept in tenths, the jitter            *)
(* Math.random() * 0.3 + 0.85 in thousandths.                              *)
(***************************************************************************)
\* calculateDelay() called without an error
NoError == "(no error)"

\* the values of Math.random() * 0.3 + 0.85 the model draws, in thousandths
Jitters == {850, 1000, 1149}

RECURSIVE Pow2(_)
Pow2(n) == IF n = 0 THEN 1 ELSE 2 * Pow2(n - 1)

\* getErrorMultiplier(error), in tenths
BackoffStrategy_getErrorMultiplier(message) ==
    IF Includes(message, "rate limit") \/ Includes(message, "too many requests")
    THEN 20
    ELSE IF Includes(message, "timeout")
    THEN 15
    ELSE IF Includes(message, "server error") \/ Includes(message, "internal error")
    THEN 12
    ELSE 10

\* an exponential delay that is not capped at maxBackoffDelay
BackoffStrategy_calculateDelay_uncapped(failures, error, jitter) ==
    LET multiplier == IF error # NoError
                      THEN BackoffStrategy_getErrorMultiplier(error)
                      ELSE 10
        exponentialDelay == BaseBackoffDelay * Pow2(failures)
    IN  (exponentialDelay * multiplier * jitter) \div 10000

\* calculateDelay(error) at a failure streak, with the jitter drawn, in ms
BackoffStrategy_calculateDelay(failures, error, jitter) ==
    LET multiplier == IF error # NoError
                      THEN BackoffStrategy_getErrorMultiplier(error)
                      ELSE 10
        exponentialDelay == Min(BaseBackoffDelay * Pow2(failures), MaxBackoffDelay)
    IN  (exponentialDelay * multiplier * jitter) \div 10000

\* recordSuccess() and reset(): the streak afterwards
BackoffStrategy_recordSuccess(failures) == 0

\* recordFailure(error): the streak afterwards
BackoffStrategy_recordFailure(failures) == failures + 1

(***************************************************************************)
(* SpecBackoff: one BackoffStrategy driven by arbitrary calls              *)
(***************************************************************************)
\* the errors handed to a stand-alone BackoffStrategy
BackoffErrors ==
    {NoError, MsgRateLimit, MsgTooManyRequests, MsgNetworkTimeout,
     MsgInternalServerError, MsgFetchFailed}

BackoffRecordFailure ==
    /\ consecutiveFailures < MaxFailures
    /\ consecutiveFailures' = BackoffStrategy_recordFailure(consecutiveFailures)
    /\ ret' = [op |-> "recordFailure", arg |-> 0, value |-> 0]
    /\ UNCHANGED <<now, bucket, pipelineVars>>

BackoffRecordSuccess ==
    /\ consecutiveFailures' = BackoffStrategy_recordSuccess(consecutiveFailures)
    /\ ret' = [op |-> "recordSuccess", arg |-> 0, value |-> 0]
    /\ UNCHANGED <<now, bucket, pipelineVars>>

BackoffCalculateDelay(error, jitter) ==
    /\ ret' = [op |-> "calculateDelay",
               arg |-> [error |-> error, jitter |-> jitter],
               value |-> BackoffStrategy_calculateDelay(consecutiveFailures,
                                                        error, jitter)]
    /\ UNCHANGED <<now, bucket, consecutiveFailures, pipelineVars>>

InitBackoff ==
    /\ now = 0
    /\ bucket = TokenBucket_new(now)
    /\ ret = NoCall
    /\ consecutiveFailures = 0
    /\ limiters = <<>>
    /\ handler = NoHandler
    /\ sink = NoSink
    /\ manager = NoManager

NextBackoff ==
    \/ BackoffRecordFailure
    \/ BackoffRecordSuccess
    \/ \E error \in BackoffErrors, jitter \in Jitters :
           BackoffCalculateDelay(error, jitter)

SpecBackoff == InitBackoff /\ [][NextBackoff]_vars

(***************************************************************************)
(* C10: with the error and the jitter held fixed, calculateDelay does not  *)
(* decrease when recordFailure() lengthens the streak, and no longer       *)
(* changes once baseBackoffDelay * 2^failures has reached maxBackoffDelay; *)
(* recordSuccess() sets the streak to 0, and a calculateDelay that follows *)
(* it returns the base value floor(baseBackoffDelay * multiplier * jitter).*)
(***************************************************************************)
BackoffGrowth ==
    /\ [][ret'.op = "recordFailure" =>
            \A error \in BackoffErrors, jitter \in Jitters :
                LET before == BackoffStrategy_calculateDelay(
                                  consecutiveFailures, error, jitter)
                    after == BackoffStrategy_calculateDelay(
                                  consecutiveFailures', error, jitter)
                IN  /\ consecutiveFailures' = consecutiveFailures + 1
                    /\ after >= before
                    /\ (BaseBackoffDelay * Pow2(consecutiveFailures)
                            >= MaxBackoffDelay => after = before)]_vars
    /\ [][ret'.op = "recordSuccess" => consecutiveFailures' = 0]_vars
    /\ [][ret.op = "recordSuccess" /\ ret'.op = "calculateDelay" =>
            ret'.value =
                (BaseBackoffDelay
                   * (IF ret'.arg.error = NoError
                      THEN 10
                      ELSE BackoffStrategy_getErrorMultiplier(ret'.arg.error))
                   * ret'.arg.jitter) \div 10000]_vars

\* a delay computed past the cap, for an error with a multiplier
BackoffGrowthWitness ==
    /\ ret.op = "calculateDelay"
    /\ ret.arg.error = MsgRateLimit
    /\ BaseBackoffDelay * Pow2(consecutiveFailures) > 2 * MaxBackoffDelay
    /\ ret.value = (MaxBackoffDelay * 20 * ret.arg.jitter) \div 10000

(***************************************************************************)
(* TelegramErrorAnalyzer.analyzeError: the tests in the order of the code  *)
(***************************************************************************)
\* an analysis that loses the class's backoff multiplier
Analysis_flatMultiplier(type, isRetryable, maxRetries, strategy, backoffMultiplier) ==
    [type |-> type, isRetryable |-> isRetryable, maxRetries |-> maxRetries,
     strategy |-> strategy, backoffMultiplier |-> 10]
Analysis(type, isRetryable, maxRetries, strategy, backoffMultiplier) ==
    [type |-> type, isRetryable |-> isRetryable, maxRetries |-> maxRetries,
     strategy |-> strategy, backoffMultiplier |-> backoffMultiplier]

\* analyzeError with the "bad request" test moved first
TelegramErrorAnalyzer_analyzeError_parseFirst(message) ==
    IF \/ Includes(message, "parse_mode")
       \/ Includes(message, "bad request")
       \/ Includes(message, "can't parse")
    THEN Analysis("parse_error", TRUE, 1, "fallback", 10)
    ELSE IF \/ Includes(message, "rate limit")
            \/ Includes(message, "too many requests")
            \/ Includes(message, "429")
    THEN Analysis("rate_limit", TRUE, 5, "retry", 20)
    ELSE IF \/ Includes(message, "message is not modified")
            \/ Includes(message, "message to edit not found")
            \/ Includes(message, "message_id_invalid")
    THEN Analysis("message_too_old", FALSE, 0, "recreate_message", 10)
    ELSE IF \/ Includes(message, "message to delete not found")
            \/ Includes(message, "message was deleted")
    THEN Analysis("message_deleted", FALSE, 0, "recreate_message", 10)
    ELSE IF \/ Includes(message, "forbidden")
            \/ Includes(message, "not enough rights")
            \/ Includes(message, "chat member status")
    THEN Analysis("permission_denied", FALSE, 0, "abort", 10)
    ELSE IF \/ Includes(message, "bot was blocked")
            \/ Includes(message, "user is deactivated")
            \/ Includes(message, "chat not found")
    THEN Analysis("bot_blocked", FALSE, 0, "abort", 10)
    ELSE IF \/ Includes(message, "timeout")
            \/ Includes(message, "network")
            \/ Includes(message, "connection")
    THEN Analysis("network_error", TRUE, 3, "retry", 15)
    ELSE IF \/ Includes(message, "500")
            \/ Includes(message, "502")
            \/ Includes(message, "503")
            \/ Includes(message, "504")
            \/ Includes(message, "internal server error")
    THEN Analysis("server_error", TRUE, 3, "retry", 12)
    ELSE Analysis("unknown", TRUE, 2, "retry", 15)
TelegramErrorAnalyzer_analyzeError(message) ==
    IF \/ Includes(message, "rate limit")
       \/ Includes(message, "too many requests")
       \/ Includes(message, "429")
    THEN Analysis("rate_limit", TRUE, 5, "retry", 20)
    ELSE IF \/ Includes(message, "message is not modified")
            \/ Includes(message, "message to edit not found")
            \/ Includes(message, "message_id_invalid")
    THEN Analysis("message_too_old", FALSE, 0, "recreate_message", 10)
    ELSE IF \/ Includes(message, "message to delete not found")
            \/ Includes(message, "message was deleted")
    THEN Analysis("message_deleted", FALSE, 0, "recreate_message", 10)
    ELSE IF \/ Includes(message, "forbidden")
            \/ Includes(message, "not enough rights")
            \/ Includes(message, "chat member status")
    THEN Analysis("permission_denied", FALSE, 0, "abort", 10)
    ELSE IF \/ Includes(message, "bot was blocked")
            \/ Includes(message, "user is deactivated")
            \/ Includes(message, "chat not found")
    THEN Analysis("bot_blocked", FALSE, 0, "abort", 10)
    ELSE IF \/ Includes(message, "timeout")
            \/ Includes(message, "network")
            \/ Includes(message, "connection")
    THEN Analysis("network_error", TRUE, 3, "retry", 15)
    ELSE IF \/ Includes(message, "500")
            \/ Includes(message, "502")
            \/ Includes(message, "503")
            \/ Includes(message, "504")
            \/ Includes(message, "internal server error")
    THEN Analysis("server_error", TRUE, 3, "retry", 12)
    ELSE IF \/ Includes(message, "parse_mode")
            \/ Includes(message, "bad request")
            \/ Includes(message, "can't parse")
    THEN Analysis("parse_error", TRUE, 1, "fallback", 10)
    ELSE Analysis("unknown", TRUE, 2, "retry", 15)

(***************************************************************************)
(* The analyzer on its own: analyzeError is applied to one failure after   *)
(* another, and ret is the list of the calls made, each with the message   *)
(* it was given and the analysis it returned.                              *)
(***************************************************************************)
MaxAnalyses == 2

\* the failures that reach the analyzer: what makeApiRequest and fetch throw
\* and what the rate limiter rejects with
AnalyzerMessages ==
    ErrorMessages \cup
    { MsgQueueFull, MsgDisposed, MsgNotModified, MsgMessageIdInvalid,
      MsgDeleteNotFound, MsgDeactivated, MsgHttpEditNotFound, MsgFloodWait,
      MsgServiceUnavailable, MsgGatewayTimeout, MsgConnectionRefused,
      MsgUnknownError }

\* every marker that analyzeError tests for
AnalyzerMarkers ==
    { "rate limit", "too many requests", "429",
      "message is not modified", "message to edit not found", "message_id_invalid",
      "message to delete not found", "message was deleted",
      "forbidden", "not enough rights", "chat member status",
      "bot was blocked", "user is deactivated", "chat not found",
      "timeout", "network", "connection",
      "500", "502", "503", "504", "internal server error",
      "parse_mode", "bad request", "can't parse" }

AnalyzeError(message) ==
    /\ Len(ret) < MaxAnalyses
    /\ ret' = Append(ret, [op |-> "analyzeError", arg |-> message,
                           value |-> TelegramErrorAnalyzer_analyzeError(message)])
    /\ UNCHANGED <<now, bucket, consecutiveFailures, pipelineVars>>

InitAnalyzer ==
    /\ now = 0
    /\ bucket = TokenBucket_new(now)
    /\ ret = <<>>
    /\ consecutiveFailures = 0
    /\ limiters = <<>>
    /\ handler = NoHandler
    /\ sink = NoSink
    /\ manager = NoManager

NextAnalyzer == \E message \in AnalyzerMessages : AnalyzeError(message)

SpecAnalyzer == InitAnalyzer /\ [][NextAnalyzer]_vars

\* the values of the type field and of the strategy field that the code declares
TelegramErrorType ==
    { "rate_limit", "message_too_old", "message_deleted", "permission_denied",
      "bot_blocked", "chat_not_found", "network_error", "timeout",
      "server_error", "parse_error", "unknown" }

RecoveryStrategy == { "retry", "fallback", "skip", "abort", "recreate_message" }

\* C11: analyzeError returns a classification for every failure message (a
\* type and a strategy that the code declares, a retry limit, a multiplier),
\* and a message that contains none of the markers it tests for is classified
\* unknown: retryable, at most 2 retries, strategy retry, multiplier 1.5.
AnalyzeErrorTotal ==
    \A i \in 1..Len(ret) :
        LET message == ret[i].arg
            analysis == ret[i].value
        IN  /\ analysis.type \in TelegramErrorType
            /\ analysis.strategy \in RecoveryStrategy
            /\ analysis.isRetryable \in BOOLEAN
            /\ analysis.maxRetries \in 0..5
            /\ analysis.backoffMultiplier \in {10, 12, 15, 20}
            /\ MarkersOf(message) \cap AnalyzerMarkers = {} =>
                   analysis = [type |-> "unknown", isRetryable |-> TRUE,
                               maxRetries |-> 2, strategy |-> "retry",
                               backoffMultiplier |-> 15]

AnalyzeErrorTotalWitness ==
    \E i \in 1..Len(ret) :
        /\ ret[i].arg = MsgFetchFailed
        /\ MarkersOf(ret[i].arg) \cap AnalyzerMarkers = {}
        /\ ret[i].value.type = "unknown"

\* C12: a message that says "too many requests" is classified rate_limit,
\* retryable, strategy retry, multiplier 2.0; a message that says that the
\* message to edit is gone (not found, deleted, invalid id) is classified
\* not retryable, with 0 retries and strategy recreate_message.
EditTargetGone(message) ==
    \/ Includes(message, "message to edit not found")
    \/ Includes(message, "message_id_invalid")
    \/ Includes(message, "message to delete not found")
    \/ Includes(message, "message was deleted")

RateLimitAndGoneTarget ==
    \A i \in 1..Len(ret) :
        LET message == ret[i].arg
            analysis == ret[i].value
        IN  /\ Includes(message, "too many requests") =>
                   /\ analysis.type = "rate_limit"
                   /\ analysis.isRetryable
                   /\ analysis.strategy = "retry"
                   /\ analysis.backoffMultiplier = 20
            /\ EditTargetGone(message) =>
                   /\ analysis.type \in {"message_too_old", "message_deleted"}
                   /\ ~analysis.isRetryable
                   /\ analysis.maxRetries = 0
                   /\ analysis.strategy = "recreate_message"

RateLimitAndGoneTargetWitness ==
    /\ \E i \in 1..Len(ret) :
           /\ ret[i].arg = MsgTooManyRequests
           /\ ret[i].value.type = "rate_limit"
    /\ \E i \in 1..Len(ret) :
           /\ ret[i].arg = MsgDeleted
           /\ ret[i].value.strategy = "recreate_message"

(***************************************************************************)
(* AdvancedRateLimiter.  A limiter is a record: its token bucket, its      *)
(* backoff streak, its monitor's counters, its queue, its processing flag, *)
(* the processQueue() invocations that are running (loops), the promise of *)
(* every request (results), and a history kept for the properties:         *)
(* submitted (the priority of every request), startOrder (the requests in  *)
(* the order of their first execution), executions, tokensDeducted,        *)
(* failures, startedAtLastSubmit.  The monitor's latency and timestamp    *)
(* lists, which only getMetrics()/getRequestRate() read, and a request's   *)
(* timestamp, which nothing reads, are left out.                           *)
(*                                                                         *)
(* A loop is at one of the awaits of processQueue/executeRequest:          *)
(*   "throttle"  await this.delay(waitTime)                                *)
(*   "exec"      await request.data()                                      *)
(*   "backoff"   await this.delay(delay)                                   *)
(*   "next"      await this.executeRequest(request), which has returned    *)
(***************************************************************************)
Priorities == {LOW, NORMAL, HIGH, URGENT}

Pending == [status |-> "pending", value |-> 0, error |-> ""]
Resolved(value) == [status |-> "resolved", value |-> value, error |-> ""]
Rejected(error) == [status |-> "rejected", value |-> 0, error |-> error]
\* resolve() or reject() of a promise: only the first one counts
Settle(old, new) == IF old.status = "pending" THEN new ELSE old

\* RateLimitMonitor: constructor and reset()
RateLimitMonitor_new ==
    [totalRequests |-> 0, successfulRequests |-> 0, failedRequests |-> 0,
     queueSize |-> 0, tokensAvailable |-> 0, lastThrottleTime |-> 0]

\* constructor; of the configuration only maxQueueSize differs between limiters
AdvancedRateLimiter_new(t, maxQueueSize) ==
    [maxQueueSize |-> maxQueueSize,
     tokenBucket |-> TokenBucket_new(t),
     consecutiveFailures |-> 0,
     monitor |-> RateLimitMonitor_new,
     requestQueue |-> <<>>,
     processing |-> FALSE,
     loops |-> {},
     results |-> <<>>,
     submitted |-> <<>>,
     startOrder |-> <<>>,
     executions |-> 0,
     tokensDeducted |-> 0,
     startedAtLastSubmit |-> 0,
     failures |-> 0]

\* the loop lid of limiter L
LoopOf(L, lid) == CHOOSE l \in L.loops : l.id = lid

\* loop lid at an await, with the locals it holds there
SetLoop(loops, lid, pc, request, wakeAt, error) ==
    { l \in loops : l.id # lid }
        \cup {[id |-> lid, pc |-> pc, request |-> request, wakeAt |-> wakeAt,
               error |-> error]}

\* an insertion that goes before the requests of its own priority
AdvancedRateLimiter_insertCandidates_beforeEqual(queue, priority) ==
    { i \in 1..Len(queue) : queue[i].priority <= priority }

\* enqueueRequest: the positions i with requestQueue[i].priority < request.priority;
\* the request is inserted at the first of them, or at the end
AdvancedRateLimiter_insertCandidates(queue, priority) ==
    { i \in 1..Len(queue) : queue[i].priority < priority }

\* a queue that accepts one request more than maxQueueSize
AdvancedRateLimiter_queueIsFull_offByOne(queue, maxQueueSize) ==
    Len(queue) > maxQueueSize

\* enqueueRequest: the test for a full queue
AdvancedRateLimiter_queueIsFull(queue, maxQueueSize) ==
    Len(queue) >= maxQueueSize

\* enqueueRequest(request)
AdvancedRateLimiter_enqueueRequest(L, request) ==
    IF AdvancedRateLimiter_queueIsFull(L.requestQueue, L.maxQueueSize)
    THEN [L EXCEPT !.results[request.id] =
                       Settle(@, Rejected(MsgQueueFull))]
    ELSE LET q == L.requestQueue
             lower == AdvancedRateLimiter_insertCandidates(q, request.priority)
             insertIndex == IF lower = {}
                            THEN Len(q) + 1
                            ELSE CHOOSE i \in lower : \A j \in lower : i <= j
             q2 == SubSeq(q, 1, insertIndex - 1) \o <<request>>
                       \o SubSeq(q, insertIndex, Len(q))
         IN  [L EXCEPT !.requestQueue = q2,
                       !.monitor.queueSize = Len(q2)]

\* executeRequest, lines 641-645: recordRequestStart(), then request.data() is called
AdvancedRateLimiter_startRequest(L, lid, request) ==
    [L EXCEPT !.monitor.totalRequests = @ + 1,
              !.executions = @ + 1,
              !.startOrder = IF \E i \in 1..Len(@) : @[i] = request.id
                             THEN @
                             ELSE Append(@, request.id),
              !.loops = SetLoop(@, lid, "exec", request, 0, "")]

\* executeRequest up to its first await: the token check
AdvancedRateLimiter_executeRequest(L, lid, request, t) ==
    LET c == TokenBucket_consume(L.tokenBucket, t, 1) IN
    IF c.ok
    THEN AdvancedRateLimiter_startRequest(
             [L EXCEPT !.tokenBucket = c.bucket, !.tokensDeducted = @ + 1],
             lid, request)
    ELSE LET w == TokenBucket_getNextTokenTime(c.bucket, t, 1) IN
         IF w.value > 0
         THEN LET a == TokenBucket_getAvailableTokens(w.bucket, t) IN
              [L EXCEPT !.tokenBucket = a.bucket,
                        !.monitor.lastThrottleTime = t,
                        !.monitor.tokensAvailable = a.value,
                        !.loops = SetLoop(@, lid, "throttle", request,
                                          t + w.value, "")]
         ELSE AdvancedRateLimiter_startRequest(
                  [L EXCEPT !.tokenBucket = w.bucket], lid, request)

\* executeRequest after await this.delay(waitTime)
AdvancedRateLimiter_afterThrottle(L, lid) ==
    AdvancedRateLimiter_startRequest(L, lid, LoopOf(L, lid).request)

\* executeRequest, lines 646-650: request.data() returned value
AdvancedRateLimiter_onSuccess(L, lid, value) ==
    LET request == LoopOf(L, lid).request IN
    [L EXCEPT !.monitor.successfulRequests = @ + 1,
              !.consecutiveFailures = BackoffStrategy_recordSuccess(@),
              !.results[request.id] = Settle(@, Resolved(value)),
              !.loops = SetLoop(@, lid, "next", request, 0, "")]

\* shouldRetry(error)
AdvancedRateLimiter_shouldRetry(message) ==
    \/ Includes(message, "rate limit")
    \/ Includes(message, "timeout")
    \/ Includes(message, "network")
    \/ Includes(message, "server error")
    \/ Includes(message, "502")
    \/ Includes(message, "503")
    \/ Includes(message, "504")

\* executeRequest, lines 651-664: request.data() threw error
AdvancedRateLimiter_onFailure(L, lid, error, jitter, t) ==
    LET request == LoopOf(L, lid).request
        failures == BackoffStrategy_recordFailure(L.consecutiveFailures)
        retry == /\ request.retryCount < LimiterMaxRetries
                 /\ AdvancedRateLimiter_shouldRetry(error)
        delay == BackoffStrategy_calculateDelay(failures, error, jitter)
        L1 == [L EXCEPT !.monitor.failedRequests = @ + 1,
                        !.failures = @ + 1,
                        !.consecutiveFailures = failures]
    IN  IF retry
        THEN [L1 EXCEPT !.loops = SetLoop(@, lid, "backoff", request,
                                          t + delay, error)]
        ELSE [L1 EXCEPT !.results[request.id] = Settle(@, Rejected(error)),
                        !.loops = SetLoop(@, lid, "next", request, 0, error)]

\* a backoff after which the request is dropped: lines 660-661 without the
\* call of enqueueRequest
AdvancedRateLimiter_afterBackoff_dropped(L, lid) ==
    LET request == LoopOf(L, lid).request
        again == [request EXCEPT !.retryCount = @ + 1]
    IN  [L EXCEPT !.loops = SetLoop(@, lid, "next", again, 0, "")]

\* executeRequest, lines 660-661, after await this.delay(delay)
AdvancedRateLimiter_afterBackoff(L, lid) ==
    LET request == LoopOf(L, lid).request
        again == [request EXCEPT !.retryCount = @ + 1]
    IN  [AdvancedRateLimiter_enqueueRequest(L, again)
            EXCEPT !.loops = SetLoop(@, lid, "next", again, 0, "")]

\* a loop that takes the request at the tail of the queue (pop for shift)
AdvancedRateLimiter_processNext_pop(L, lid, t) ==
    IF Len(L.requestQueue) > 0
    THEN LET request == L.requestQueue[Len(L.requestQueue)]
             rest == SubSeq(L.requestQueue, 1, Len(L.requestQueue) - 1)
         IN  AdvancedRateLimiter_executeRequest(
                 [L EXCEPT !.requestQueue = rest,
                           !.monitor.queueSize = Len(rest)],
                 lid, request, t)
    ELSE [L EXCEPT !.processing = FALSE,
                   !.loops = { l \in @ : l.id # lid }]

\* processQueue, lines 613-624: the while test and one turn of the loop
AdvancedRateLimiter_processNext(L, lid, t) ==
    IF Len(L.requestQueue) > 0
    THEN LET request == Head(L.requestQueue)
             rest == Tail(L.requestQueue)
         IN  AdvancedRateLimiter_executeRequest(
                 [L EXCEPT !.requestQueue = rest,
                           !.monitor.queueSize = Len(rest)],
                 lid, request, t)
    ELSE [L EXCEPT !.processing = FALSE,
                   !.loops = { l \in @ : l.id # lid }]

\* a processQueue() that does not look at the processing flag
AdvancedRateLimiter_mayProcess_unguarded(L) == Len(L.requestQueue) > 0

\* processQueue, line 607: whether this invocation goes on to process the queue
AdvancedRateLimiter_mayProcess(L) ==
    ~(L.processing \/ Len(L.requestQueue) = 0)

\* processQueue() up to its first await; lid names the invocation
AdvancedRateLimiter_processQueue(L, lid, t) ==
    IF AdvancedRateLimiter_mayProcess(L)
    THEN AdvancedRateLimiter_processNext([L EXCEPT !.processing = TRUE], lid, t)
    ELSE L

\* execute(request, priority): the request id gets a promise, is enqueued, and
\* processQueue() is called
AdvancedRateLimiter_execute(L, id, priority, t) ==
    LET request == [id |-> id, priority |-> priority, retryCount |-> 0]
        L1 == [L EXCEPT !.results = @ \o <<Pending>>,
                        !.submitted = Append(@, priority),
                        !.startedAtLastSubmit = Len(L.startOrder)]
    IN  AdvancedRateLimiter_processQueue(
            AdvancedRateLimiter_enqueueRequest(L1, request), id, t)

\* dispose()
AdvancedRateLimiter_dispose(L, t) ==
    [L EXCEPT !.results =
                  [id \in DOMAIN @ |->
                      IF \E i \in 1..Len(L.requestQueue) : L.requestQueue[i].id = id
                      THEN Settle(@[id], Rejected(MsgDisposed))
                      ELSE @[id]],
              !.requestQueue = <<>>,
              !.monitor = RateLimitMonitor_new,
              !.consecutiveFailures = BackoffStrategy_recordSuccess(@),
              !.tokenBucket = TokenBucket_new(t)]

(***************************************************************************)
(* SpecLimiter: one AdvancedRateLimiter (limiters[1]) driven by execute()  *)
(* calls, by the completion of the operation it runs, by its timers and by *)
(* the clock.  SpecLimiterBurst is the same with a queue that holds one    *)
(* request more, so that MaxSubmit requests can be pending together.       *)
(***************************************************************************)
\* the errors an operation run by the limiter fails with
LimiterErrors == {MsgRateLimit, MsgTooManyRequests}
\* the priorities execute() is called with
LimiterPriorities == {LOW, NORMAL, URGENT}
\* the jitter values drawn when a limiter computes a backoff delay
LimiterJitters == {1000}

LimiterTimes == { k * LimiterClockStep : k \in 0..LimiterTicks }

ClockAdvance ==
    /\ \E t \in LimiterTimes : t > now /\ now' = t
    /\ UNCHANGED <<standaloneVars, pipelineVars>>

\* a caller calls execute(request, priority)
Execute(i, priority) ==
    /\ Len(limiters[i].submitted) < MaxSubmit
    /\ limiters' = [limiters EXCEPT ![i] =
           AdvancedRateLimiter_execute(@, Len(@.results) + 1, priority, now)]
    /\ UNCHANGED <<now, standaloneVars, handlerVars>>

\* the timer of a throttle wait fires
ThrottleDone(i, lid) ==
    /\ LoopOf(limiters[i], lid).pc = "throttle"
    /\ now >= LoopOf(limiters[i], lid).wakeAt
    /\ limiters' = [limiters EXCEPT ![i] = AdvancedRateLimiter_afterThrottle(@, lid)]
    /\ UNCHANGED <<now, standaloneVars, handlerVars>>

\* the operation being executed returns
OperationSucceeds(i, lid) ==
    /\ LoopOf(limiters[i], lid).pc = "exec"
    /\ limiters' = [limiters EXCEPT ![i] = AdvancedRateLimiter_onSuccess(@, lid, 1)]
    /\ UNCHANGED <<now, standaloneVars, handlerVars>>

\* the operation being executed throws
OperationFails(i, lid, error, jitter) ==
    /\ LoopOf(limiters[i], lid).pc = "exec"
    /\ limiters[i].failures < MaxOpFailures
    /\ limiters' = [limiters EXCEPT ![i] =
           AdvancedRateLimiter_onFailure(@, lid, error, jitter, now)]
    /\ UNCHANGED <<now, standaloneVars, handlerVars>>

\* the timer of a backoff wait fires
BackoffDone(i, lid) ==
    /\ LoopOf(limiters[i], lid).pc = "backoff"
    /\ now >= LoopOf(limiters[i], lid).wakeAt
    /\ limiters' = [limiters EXCEPT ![i] = AdvancedRateLimiter_afterBackoff(@, lid)]
    /\ UNCHANGED <<now, standaloneVars, handlerVars>>

\* processQueue() resumes after executeRequest has returned
ProcessNext(i, lid) ==
    /\ LoopOf(limiters[i], lid).pc = "next"
    /\ limiters' = [limiters EXCEPT ![i] =
           AdvancedRateLimiter_processNext(@, lid, now)]
    /\ UNCHANGED <<now, standaloneVars, handlerVars>>

InitLimiter ==
    /\ now = 0
    /\ bucket = TokenBucket_new(now)
    /\ ret = NoCall
    /\ consecutiveFailures = 0
    /\ limiters = <<AdvancedRateLimiter_new(now, MaxQueueSize)>>
    /\ handler = NoHandler
    /\ sink = NoSink
    /\ manager = NoManager

InitLimiterBurst ==
    /\ now = 0
    /\ bucket = TokenBucket_new(now)
    /\ ret = NoCall
    /\ consecutiveFailures = 0
    /\ limiters = <<AdvancedRateLimiter_new(now, MaxQueueSize + 1)>>
    /\ handler = NoHandler
    /\ sink = NoSink
    /\ manager = NoManager

NextLimiter ==
    \/ ClockAdvance
    \/ \E priority \in LimiterPriorities : Execute(1, priority)
    \/ \E l \in limiters[1].loops : ThrottleDone(1, l.id)
    \/ \E l \in limiters[1].loops : OperationSucceeds(1, l.id)
    \/ \E l \in limiters[1].loops, error \in LimiterErrors, jitter \in LimiterJitters :
           OperationFails(1, l.id, error, jitter)
    \/ \E l \in limiters[1].loops : BackoffDone(1, l.id)
    \/ \E l \in limiters[1].loops : ProcessNext(1, l.id)

SpecLimiter == InitLimiter /\ [][NextLimiter]_vars

SpecLimiterBurst == InitLimiterBurst /\ [][NextLimiter]_vars

\* the operations of limiter L that have been started and are not yet settled
Executing(L) == { l \in L.loops : l.pc = "exec" }

(***************************************************************************)
(* C3: at most one operation submitted to a limiter is executing at any    *)
(* time.                                                                   *)
(***************************************************************************)
SingleFlight ==
    \A i \in DOMAIN limiters :
        /\ Cardinality(Executing(limiters[i])) <= 1
        /\ Cardinality(limiters[i].loops) <= 1

\* an operation is executing while others wait, one of them a retry
SingleFlightWitness ==
    \E i \in DOMAIN limiters :
        /\ Cardinality(Executing(limiters[i])) = 1
        /\ Len(limiters[i].requestQueue) >= 2
        /\ \E k \in 1..Len(limiters[i].requestQueue) :
               limiters[i].requestQueue[k].retryCount > 0

\* the ids of the requests in a queue, and the place of one of them
QueuedIds(queue) == { queue[k].id : k \in 1..Len(queue) }
Pos(queue, id) == CHOOSE k \in 1..Len(queue) : queue[k].id = id
\* the requests a loop of L holds that it has taken from the queue
Taken(L) == { l.request : l \in { m \in L.loops : m.pc \in {"throttle", "exec"} } }

(***************************************************************************)
(* C5: the pending queue of a limiter is always sorted by priority,        *)
(* highest first; no step changes the relative order of two requests that  *)
(* stay in the queue, and a request that enters the queue (submitted, or   *)
(* re-enqueued for a retry) is placed behind every queued request of its   *)
(* own priority: of two requests of equal priority the one enqueued        *)
(* earlier is nearer the head.                                             *)
(***************************************************************************)
QueueSorted ==
    \A i \in DOMAIN limiters :
        LET q == limiters[i].requestQueue IN
        \A a, b \in 1..Len(q) : a < b => q[a].priority >= q[b].priority

QueueStableStep ==
    \A i \in DOMAIN limiters :
        LET q == limiters[i].requestQueue
            q2 == limiters'[i].requestQueue
            stay == QueuedIds(q) \cap QueuedIds(q2)
            enter == QueuedIds(q2) \ QueuedIds(q)
        IN  /\ \A a, b \in stay : Pos(q, a) < Pos(q, b) => Pos(q2, a) < Pos(q2, b)
            /\ \A n \in enter, o \in stay :
                   q2[Pos(q2, o)].priority = q2[Pos(q2, n)].priority
                       => Pos(q2, o) < Pos(q2, n)

QueueOrdered == []QueueSorted /\ [][QueueStableStep]_vars

\* a request re-enqueued for a retry waits behind a request of its own priority
\* that was submitted after it
QueueOrderedWitness ==
    \E i \in DOMAIN limiters :
        LET q == limiters[i].requestQueue IN
        \E a, b \in 1..Len(q) :
            /\ a < b
            /\ q[a].priority = q[b].priority
            /\ q[b].retryCount > 0
            /\ q[a].id > q[b].id

(***************************************************************************)
(* C6, as the claim has it: operations submitted with priorities          *)
(* [LOW, URGENT, NORMAL, URGENT] start executing in the order              *)
(* [URGENT, URGENT, NORMAL, LOW].                                          *)
(***************************************************************************)
StartOrderIsPriorityOrder ==
    \A i \in DOMAIN limiters :
        (/\ limiters[i].submitted = <<LOW, URGENT, NORMAL, URGENT>>
         /\ Len(limiters[i].startOrder) = 4)
            => limiters[i].startOrder = <<2, 4, 3, 1>>

(***************************************************************************)
(* C6, amended: the request submitted first starts first (an idle limiter  *)
(* starts what it is given at once); whenever a limiter takes a request    *)
(* from its queue, every request left in the queue has a lower priority,   *)
(* or the same priority and a place behind it in the queue before; and     *)
(* when [LOW, URGENT, NORMAL, URGENT] are all submitted before a second    *)
(* request has started, they start in the order                            *)
(* [LOW, URGENT, URGENT, NORMAL].                                          *)
(***************************************************************************)
FirstSubmittedStartsFirst ==
    \A i \in DOMAIN limiters :
        Len(limiters[i].startOrder) >= 1 => limiters[i].startOrder[1] = 1

TakesHighestPending ==
    \A i \in DOMAIN limiters :
        LET q == limiters[i].requestQueue
            q2 == limiters'[i].requestQueue
        IN  \A r \in Taken(limiters'[i]) \ Taken(limiters[i]) :
                \A k \in 1..Len(q2) :
                    \/ q2[k].priority < r.priority
                    \/ /\ q2[k].priority = r.priority
                       /\ r.id \in QueuedIds(q)
                       /\ q2[k].id \in QueuedIds(q)
                       /\ Pos(q, r.id) < Pos(q, q2[k].id)

BurstStartOrder ==
    \A i \in DOMAIN limiters :
        (/\ limiters[i].submitted = <<LOW, URGENT, NORMAL, URGENT>>
         /\ limiters[i].startedAtLastSubmit <= 1
         /\ Len(limiters[i].startOrder) = 4)
            => limiters[i].startOrder = <<1, 2, 4, 3>>

StartsByPriorityAmongPending ==
    /\ []FirstSubmittedStartsFirst
    /\ []BurstStartOrder
    /\ [][TakesHighestPending]_vars

\* the four requests of the scenario were pending or running together and have
\* all started
StartsByPriorityAmongPendingWitness ==
    \E i \in DOMAIN limiters :
        /\ limiters[i].submitted = <<LOW, URGENT, NORMAL, URGENT>>
        /\ limiters[i].startedAtLastSubmit <= 1
        /\ limiters[i].startOrder = <<1, 2, 4, 3>>

(***************************************************************************)
(* C7: the pending queue never holds more than maxQueueSize requests; an   *)
(* execute() made while it holds maxQueueSize is rejected in that call     *)
(* with "Request queue is full", leaves the queue and the running loops as *)
(* they are, and a request whose promise is settled is never taken for     *)
(* execution.                                                              *)
(***************************************************************************)
QueueWithinCapacity ==
    \A i \in DOMAIN limiters :
        Len(limiters[i].requestQueue) <= limiters[i].maxQueueSize

SettledNeverTaken ==
    \A i \in DOMAIN limiters :
        /\ \A r \in Taken(limiters[i]) : limiters[i].results[r.id] = Pending
        /\ \A k \in 1..Len(limiters[i].requestQueue) :
               limiters[i].results[limiters[i].requestQueue[k].id] = Pending

FullQueueRejectsStep ==
    \A i \in DOMAIN limiters :
        (/\ Len(limiters'[i].submitted) = Len(limiters[i].submitted) + 1
         /\ Len(limiters[i].requestQueue) = limiters[i].maxQueueSize)
            => /\ limiters'[i].results[Len(limiters'[i].submitted)]
                      = Rejected(MsgQueueFull)
               /\ limiters'[i].requestQueue = limiters[i].requestQueue
               /\ limiters'[i].loops = limiters[i].loops
               /\ limiters'[i].executions = limiters[i].executions

FullQueueRejects ==
    /\ []QueueWithinCapacity
    /\ []SettledNeverTaken
    /\ [][FullQueueRejectsStep]_vars

\* a submission was refused because the queue was full, and has never run
FullQueueRejectsWitness ==
    \E i \in DOMAIN limiters :
        \E id \in DOMAIN limiters[i].results :
            /\ limiters[i].results[id] = Rejected(MsgQueueFull)
            /\ \A k \in 1..Len(limiters[i].startOrder) :
                   limiters[i].startOrder[k] # id
            /\ Len(limiters[i].requestQueue) = limiters[i].maxQueueSize

(***************************************************************************)
(* C8, as the claim has it: a failed operation is re-enqueued exactly when *)
(* analyzeError classifies its failure as retryable and its retry count is *)
(* below the class's maxRetries; otherwise its caller is rejected with the *)
(* failure.  A loop in "backoff" has decided to retry the failure it       *)
(* holds; a loop in "next" that holds an error has rejected its request    *)
(* with it.                                                                *)
(***************************************************************************)
RetryFollowsClassification ==
    \A i \in DOMAIN limiters :
        \A l \in limiters[i].loops :
            LET a == TelegramErrorAnalyzer_analyzeError(l.error)
                retryable == a.isRetryable /\ l.request.retryCount < a.maxRetries
            IN  /\ l.pc = "backoff" => retryable
                /\ (l.pc = "next" /\ l.error # "") =>
                       /\ ~retryable
                       /\ limiters[i].results[l.request.id] = Rejected(l.error)

(***************************************************************************)
(* C9, as the claim has it: every execution started has consumed a token,  *)
(* so a limiter never has started more executions than it has deducted     *)
(* tokens.                                                                 *)
(***************************************************************************)
ExecutionsAdmitted ==
    \A i \in DOMAIN limiters :
        limiters[i].executions <= limiters[i].tokensDeducted

(***************************************************************************)
(* StreamStateManager (src/src/telegram/stream-state-manager.ts).  The     *)
(* three maps are functions; sessionId 0 is no session, messageId 0 is     *)
(* null/undefined.  generateSessionId() returns an id that no session has  *)
(* had: the number of the createSession call.  A Map and a Set are         *)
(* iterated in insertion order, which is the order of the ids.  The        *)
(* metrics, the metadata and a version's timestamp, lengths and checksum,  *)
(* which no operation modelled here reads, are left out.  An operator      *)
(* returns the manager after the call; the value the call returns has an   *)
(* operator of its own.                                                    *)
(***************************************************************************)
\* CleanupConfig of the model's manager, in ms (defaults: lines 102-104)
MaxSessionAge == 10000
MaxInactiveDuration == 5000
MaxSessionsPerUser == 2

SessionStatus ==
    { "initializing", "active", "paused", "finalizing", "completed", "error",
      "timeout" }

\* Map.set, Map.delete
MapSet(map, key, value) ==
    [k \in DOMAIN map \cup {key} |-> IF k = key THEN value ELSE map[k]]
MapDelete(map, key) == [k \in DOMAIN map \ {key} |-> map[k]]

\* constructor
StreamStateManager_new(maxSessionAge, maxInactiveDuration, maxSessionsPerUser) ==
    [sessions |-> <<>>, contexts |-> <<>>, userSessions |-> <<>>,
     cleanupConfig |-> [maxSessionAge |-> maxSessionAge,
                        maxInactiveDuration |-> maxInactiveDuration,
                        maxSessionsPerUser |-> maxSessionsPerUser],
     generated |-> 0]

\* getSession, getContext: 0 is null
StreamStateManager_getSession(M, sessionId) ==
    IF sessionId \in DOMAIN M.sessions THEN M.sessions[sessionId] ELSE 0
StreamStateManager_getContext(M, sessionId) ==
    IF sessionId \in DOMAIN M.contexts THEN M.contexts[sessionId] ELSE 0

\* a cleanupSession that leaves the owner's entry in userSessions when its set
\* has become empty
StreamStateManager_cleanupSession_keepsOwner(M, sessionId) ==
    IF sessionId \notin DOMAIN M.sessions
    THEN M
    ELSE LET userId == M.sessions[sessionId].userId
             userSessions ==
                 IF userId \in DOMAIN M.userSessions
                 THEN MapSet(M.userSessions, userId,
                             M.userSessions[userId] \ {sessionId})
                 ELSE M.userSessions
         IN  [M EXCEPT !.userSessions = userSessions,
                       !.sessions = MapDelete(@, sessionId),
                       !.contexts = MapDelete(@, sessionId)]

\* cleanupSession
StreamStateManager_cleanupSession(M, sessionId) ==
    IF sessionId \notin DOMAIN M.sessions
    THEN M
    ELSE LET userId == M.sessions[sessionId].userId
             userSessions ==
                 IF userId \in DOMAIN M.userSessions
                 THEN IF M.userSessions[userId] \ {sessionId} = {}
                      THEN MapDelete(M.userSessions, userId)
                      ELSE MapSet(M.userSessions, userId,
                                  M.userSessions[userId] \ {sessionId})
                 ELSE M.userSessions
         IN  [M EXCEPT !.userSessions = userSessions,
                       !.sessions = MapDelete(@, sessionId),
                       !.contexts = MapDelete(@, sessionId)]
StreamStateManager_cleanupSession_returns(M, sessionId) ==
    sessionId \in DOMAIN M.sessions

\* enforceUserSessionLimits that compares with > where the code has >=
StreamStateManager_enforceUserSessionLimits_above(M, userId) ==
    IF \/ userId \notin DOMAIN M.userSessions
       \/ Cardinality(M.userSessions[userId]) <= M.cleanupConfig.maxSessionsPerUser
    THEN M
    ELSE LET ids == { id \in M.userSessions[userId] : id \in DOMAIN M.sessions } IN
         IF ids = {}
         THEN M
         ELSE StreamStateManager_cleanupSession(M,
                  CHOOSE id \in ids : \A other \in ids :
                      \/ M.sessions[id].startTime < M.sessions[other].startTime
                      \/ /\ M.sessions[id].startTime = M.sessions[other].startTime
                         /\ id <= other)

\* enforceUserSessionLimits: the first session in the order of the owner's set
\* whose startTime no other session's is below
StreamStateManager_enforceUserSessionLimits(M, userId) ==
    IF \/ userId \notin DOMAIN M.userSessions
       \/ Cardinality(M.userSessions[userId]) < M.cleanupConfig.maxSessionsPerUser
    THEN M
    ELSE LET ids == { id \in M.userSessions[userId] : id \in DOMAIN M.sessions } IN
         IF ids = {}
         THEN M
         ELSE StreamStateManager_cleanupSession(M,
                  CHOOSE id \in ids : \A other \in ids :
                      \/ M.sessions[id].startTime < M.sessions[other].startTime
                      \/ /\ M.sessions[id].startTime = M.sessions[other].startTime
                         /\ id <= other)

\* createSession; the session it returns has the id M.generated + 1
StreamStateManager_createSession(M, chatId, userId, t) ==
    LET sessionId == M.generated + 1
        M1 == StreamStateManager_enforceUserSessionLimits(M, userId)
        session == [sessionId |-> sessionId, chatId |-> chatId, userId |-> userId,
                    startTime |-> t, lastActivity |-> t,
                    status |-> "initializing", messageId |-> 0]
        context == [sessionId |-> sessionId, messageVersions |-> <<>>,
                    currentVersion |-> 0, totalChunks |-> 0, processedChunks |-> 0,
                    errorCount |-> 0, retryCount |-> 0, lastCheckpoint |-> t]
    IN  [M1 EXCEPT !.sessions = MapSet(@, sessionId, session),
                   !.contexts = MapSet(@, sessionId, context),
                   !.userSessions =
                       MapSet(@, userId,
                              (IF userId \in DOMAIN @ THEN @[userId] ELSE {})
                                  \cup {sessionId}),
                   !.generated = sessionId]

\* updateSessionStatus
StreamStateManager_updateSessionStatus(M, sessionId, status, t) ==
    IF sessionId \notin DOMAIN M.sessions
    THEN M
    ELSE [M EXCEPT !.sessions[sessionId].status = status,
                   !.sessions[sessionId].lastActivity = t]
StreamStateManager_updateSessionStatus_returns(M, sessionId) ==
    sessionId \in DOMAIN M.sessions

\* session.lastActivity = Date.now(), if the session is stored
Touch(M, sessionId, t) ==
    IF sessionId \in DOMAIN M.sessions
    THEN [M EXCEPT !.sessions[sessionId].lastActivity = t]
    ELSE M

\* addMessageVersion that numbers a version by the length of the list
StreamStateManager_addMessageVersion_byLength(M, sessionId, content, sentToTelegram, telegramMessageId, t) ==
    IF sessionId \notin DOMAIN M.contexts
    THEN M
    ELSE LET context == M.contexts[sessionId]
             version == [version |-> Len(context.messageVersions),
                         content |-> content,
                         sentToTelegram |-> sentToTelegram,
                         telegramMessageId |-> telegramMessageId]
             M1 == [M EXCEPT !.contexts[sessionId].messageVersions =
                                 Append(@, version),
                             !.contexts[sessionId].currentVersion = version.version]
             M2 == Touch(M1, sessionId, t)
         IN  IF sessionId \in DOMAIN M.sessions /\ telegramMessageId # 0
             THEN [M2 EXCEPT !.sessions[sessionId].messageId = telegramMessageId]
             ELSE M2

\* addMessageVersion
StreamStateManager_addMessageVersion(M, sessionId, content, sentToTelegram, telegramMessageId, t) ==
    IF sessionId \notin DOMAIN M.contexts
    THEN M
    ELSE LET context == M.contexts[sessionId]
             version == [version |-> context.currentVersion + 1,
                         content |-> content,
                         sentToTelegram |-> sentToTelegram,
                         telegramMessageId |-> telegramMessageId]
             M1 == [M EXCEPT !.contexts[sessionId].messageVersions =
                                 Append(@, version),
                             !.contexts[sessionId].currentVersion = version.version]
             M2 == Touch(M1, sessionId, t)
         IN  IF sessionId \in DOMAIN M.sessions /\ telegramMessageId # 0
             THEN [M2 EXCEPT !.sessions[sessionId].messageId = telegramMessageId]
             ELSE M2

\* recordChunk
StreamStateManager_recordChunk(M, sessionId, t) ==
    IF sessionId \notin DOMAIN M.contexts
    THEN M
    ELSE Touch([M EXCEPT !.contexts[sessionId].totalChunks = @ + 1,
                         !.contexts[sessionId].processedChunks = @ + 1,
                         !.contexts[sessionId].lastCheckpoint = t],
               sessionId, t)

\* a recordError that sets the status with the third error: >= 3 for > 3
StreamStateManager_recordError_atThree(M, sessionId, t) ==
    IF sessionId \notin DOMAIN M.contexts
    THEN M
    ELSE LET M1 == [M EXCEPT !.contexts[sessionId].errorCount = @ + 1]
             M2 == Touch(M1, sessionId, t)
         IN  IF /\ sessionId \in DOMAIN M.sessions
                /\ M1.contexts[sessionId].errorCount >= 3
             THEN [M2 EXCEPT !.sessions[sessionId].status = "error"]
             ELSE M2

\* recordError
StreamStateManager_recordError(M, sessionId, t) ==
    IF sessionId \notin DOMAIN M.contexts
    THEN M
    ELSE LET M1 == [M EXCEPT !.contexts[sessionId].errorCount = @ + 1]
             M2 == Touch(M1, sessionId, t)
         IN  IF /\ sessionId \in DOMAIN M.sessions
                /\ M1.contexts[sessionId].errorCount > 3
             THEN [M2 EXCEPT !.sessions[sessionId].status = "error"]
             ELSE M2

\* recordRetry
StreamStateManager_recordRetry(M, sessionId, t) ==
    IF sessionId \notin DOMAIN M.contexts
    THEN M
    ELSE Touch([M EXCEPT !.contexts[sessionId].retryCount = @ + 1], sessionId, t)

\* recordChunk, recordError, recordRetry: true if the context is stored
StreamStateManager_record_returns(M, sessionId) == sessionId \in DOMAIN M.contexts

\* performCleanup's test of one session
ShouldCleanup(M, sessionId, t) ==
    LET session == M.sessions[sessionId]
        age == t - session.startTime
        inactiveDuration == t - session.lastActivity
    IN  \/ age > M.cleanupConfig.maxSessionAge
        \/ inactiveDuration > M.cleanupConfig.maxInactiveDuration
        \/ session.status = "completed"
        \/ session.status = "error"

\* cleanupSession for each of the ids
RECURSIVE CleanupAll(_, _)
CleanupAll(M, ids) ==
    IF ids = {}
    THEN M
    ELSE LET id == CHOOSE x \in ids : \A y \in ids : x <= y IN
         CleanupAll(StreamStateManager_cleanupSession(M, id), ids \ {id})

\* performCleanup that leaves out the test of the status
StreamStateManager_performCleanup_noStatus(M, t) ==
    CleanupAll(M, { id \in DOMAIN M.sessions :
                        \/ t - M.sessions[id].startTime > M.cleanupConfig.maxSessionAge
                        \/ t - M.sessions[id].lastActivity
                               > M.cleanupConfig.maxInactiveDuration })

\* performCleanup and the count it returns
StreamStateManager_performCleanup(M, t) ==
    CleanupAll(M, { id \in DOMAIN M.sessions : ShouldCleanup(M, id, t) })
StreamStateManager_performCleanup_returns(M, t) ==
    Cardinality({ id \in DOMAIN M.sessions : ShouldCleanup(M, id, t) })

(***************************************************************************)
(* One StreamStateManager, called by the handlers of its users and by its  *)
(* cleanup timer.  ret is the last call and what it returned.              *)
(*   SpecStateManager  the sessions of two users are created, get a status *)
(*                     and are cleaned up while the clock advances         *)
(*   SpecContext       the calls that record the progress of one session   *)
(***************************************************************************)
\* the createSession calls made, and the calls recorded in one context
MaxGenerated == 3
MaxContextCalls == 4
\* the clock of the manager: ManagerTicks steps of ManagerClockStep ms
ManagerClockStep == 6000
ManagerTicks == 2

ManagerUsers == {1, 2}
ManagerTimes == { k * ManagerClockStep : k \in 0..ManagerTicks }
\* the session ids that a caller may hold: those of the sessions created so far
SessionIds == 1..manager.generated
\* the statuses that TelegramStreamHandler passes to updateSessionStatus
HandlerStatuses == { "active", "paused", "finalizing", "completed" }
\* the statuses that the callers of SpecStateManager pass
LifecycleStatuses == { "active", "completed", "error" }
\* the message ids passed to addMessageVersion (0: none)
VersionMessageIds == {0, 1}

ContextCalls(sessionId) ==
    IF sessionId \in DOMAIN manager.contexts
    THEN LET c == manager.contexts[sessionId] IN
         c.totalChunks + c.errorCount + c.retryCount + c.currentVersion
    ELSE 0

Call(op, arg, value) == [op |-> op, arg |-> arg, value |-> value]
\* a call's boolean result in ret: 1 is true, 0 is false
Flag(b) == IF b THEN 1 ELSE 0

ManagerClockAdvance ==
    /\ \E t \in ManagerTimes : t > now /\ now' = t
    /\ UNCHANGED <<standaloneVars, pipelineVars>>

CreateSession(userId) ==
    /\ manager.generated < MaxGenerated
    /\ manager' = StreamStateManager_createSession(manager, userId, userId, now)
    /\ ret' = Call("createSession", userId, manager.generated + 1)
    /\ UNCHANGED <<now, bucket, consecutiveFailures, limiters, handler, sink>>

UpdateSessionStatus(sessionId, status) ==
    /\ manager' = StreamStateManager_updateSessionStatus(manager, sessionId, status, now)
    /\ ret' = Call("updateSessionStatus", sessionId,
                   Flag(StreamStateManager_updateSessionStatus_returns(manager, sessionId)))
    /\ UNCHANGED <<now, bucket, consecutiveFailures, limiters, handler, sink>>

AddMessageVersion(sessionId, telegramMessageId) ==
    /\ ContextCalls(sessionId) < MaxContextCalls
    /\ manager' = StreamStateManager_addMessageVersion(
                      manager, sessionId, <<"*a*">>, TRUE, telegramMessageId, now)
    /\ ret' = Call("addMessageVersion", sessionId,
                   IF sessionId \in DOMAIN manager.contexts
                   THEN manager.contexts[sessionId].currentVersion + 1
                   ELSE 0)
    /\ UNCHANGED <<now, bucket, consecutiveFailures, limiters, handler, sink>>

RecordChunk(sessionId) ==
    /\ ContextCalls(sessionId) < MaxContextCalls
    /\ manager' = StreamStateManager_recordChunk(manager, sessionId, now)
    /\ ret' = Call("recordChunk", sessionId,
                   Flag(StreamStateManager_record_returns(manager, sessionId)))
    /\ UNCHANGED <<now, bucket, consecutiveFailures, limiters, handler, sink>>

RecordError(sessionId) ==
    /\ ContextCalls(sessionId) < MaxContextCalls
    /\ manager' = StreamStateManager_recordError(manager, sessionId, now)
    /\ ret' = Call("recordError", sessionId,
                   Flag(StreamStateManager_record_returns(manager, sessionId)))
    /\ UNCHANGED <<now, bucket, consecutiveFailures, limiters, handler, sink>>

RecordRetry(sessionId) ==
    /\ ContextCalls(sessionId) < MaxContextCalls
    /\ manager' = StreamStateManager_recordRetry(manager, sessionId, now)
    /\ ret' = Call("recordRetry", sessionId,
                   Flag(StreamStateManager_record_returns(manager, sessionId)))
    /\ UNCHANGED <<now, bucket, consecutiveFailures, limiters, handler, sink>>

CleanupSession(sessionId) ==
    /\ manager' = StreamStateManager_cleanupSession(manager, sessionId)
    /\ ret' = Call("cleanupSession", sessionId,
                   Flag(StreamStateManager_cleanupSession_returns(manager, sessionId)))
    /\ UNCHANGED <<now, bucket, consecutiveFailures, limiters, handler, sink>>

PerformCleanup ==
    /\ manager' = StreamStateManager_performCleanup(manager, now)
    /\ ret' = Call("performCleanup", now,
                   StreamStateManager_performCleanup_returns(manager, now))
    /\ UNCHANGED <<now, bucket, consecutiveFailures, limiters, handler, sink>>

InitStateManager ==
    /\ now = 0
    /\ bucket = TokenBucket_new(now)
    /\ ret = NoCall
    /\ consecutiveFailures = 0
    /\ limiters = <<>>
    /\ handler = NoHandler
    /\ sink = NoSink
    /\ manager = StreamStateManager_new(MaxSessionAge, MaxInactiveDuration,
                                        MaxSessionsPerUser)

NextStateManager ==
    \/ ManagerClockAdvance
    \/ \E userId \in ManagerUsers : CreateSession(userId)
    \/ \E sessionId \in SessionIds, status \in LifecycleStatuses :
           UpdateSessionStatus(sessionId, status)
    \/ \E sessionId \in SessionIds : CleanupSession(sessionId)
    \/ PerformCleanup

SpecStateManager == InitStateManager /\ [][NextStateManager]_vars

\* a manager whose first session has just been created
InitContext ==
    /\ now = 0
    /\ bucket = TokenBucket_new(now)
    /\ ret = Call("createSession", 1, 1)
    /\ consecutiveFailures = 0
    /\ limiters = <<>>
    /\ handler = NoHandler
    /\ sink = NoSink
    /\ manager = StreamStateManager_createSession(
                      StreamStateManager_new(MaxSessionAge, MaxInactiveDuration,
                                             MaxSessionsPerUser),
                      1, 1, now)

NextContext ==
    \/ \E sessionId \in SessionIds, status \in HandlerStatuses :
           UpdateSessionStatus(sessionId, status)
    \/ \E sessionId \in SessionIds, telegramMessageId \in VersionMessageIds :
           AddMessageVersion(sessionId, telegramMessageId)
    \/ \E sessionId \in SessionIds : RecordChunk(sessionId)
    \/ \E sessionId \in SessionIds : RecordError(sessionId)
    \/ \E sessionId \in SessionIds : RecordRetry(sessionId)
    \/ \E sessionId \in SessionIds : CleanupSession(sessionId)

SpecContext == InitContext /\ [][NextContext]_vars

(***************************************************************************)
(* C17: in every stored context the versions are numbered 1, 2, 3, ... in  *)
(* the order of the list, and currentVersion is the number of versions,    *)
(* whatever addMessageVersion, recordChunk, recordError, recordRetry and   *)
(* updateSessionStatus calls were made.                                    *)
(***************************************************************************)
VersionsNumbered ==
    \A sessionId \in DOMAIN manager.contexts :
        LET context == manager.contexts[sessionId] IN
        /\ \A k \in 1..Len(context.messageVersions) :
               context.messageVersions[k].version = k
        /\ context.currentVersion = Len(context.messageVersions)

\* two versions were added to a context with an error and a retry recorded
VersionsNumberedWitness ==
    \E sessionId \in DOMAIN manager.contexts :
        /\ Len(manager.contexts[sessionId].messageVersions) = 2
        /\ manager.contexts[sessionId].errorCount = 1
        /\ manager.contexts[sessionId].retryCount = 1
        /\ manager.sessions[sessionId].status = "paused"

(***************************************************************************)
(* C18: no owner has more than maxSessionsPerUser sessions stored; a       *)
(* createSession call for an owner who has that many removes one session,  *)
(* one of the owner's whose start time is the earliest, and adds the new   *)
(* one; a createSession call for an owner below the cap removes none.      *)
(***************************************************************************)
SessionsOf(M, userId) ==
    { id \in DOMAIN M.sessions : M.sessions[id].userId = userId }

SessionsWithinCap ==
    \A userId \in ManagerUsers :
        Cardinality(SessionsOf(manager, userId))
            <= manager.cleanupConfig.maxSessionsPerUser

CreateEvictsOldestStep ==
    manager'.generated = manager.generated + 1 =>
        LET new == manager'.generated
            owned == SessionsOf(manager, manager'.sessions[new].userId)
        IN  IF Cardinality(owned) >= manager.cleanupConfig.maxSessionsPerUser
            THEN \E victim \in owned :
                     /\ \A other \in owned :
                            manager.sessions[victim].startTime
                                <= manager.sessions[other].startTime
                     /\ DOMAIN manager'.sessions
                            = (DOMAIN manager.sessions \ {victim}) \cup {new}
            ELSE DOMAIN manager'.sessions = DOMAIN manager.sessions \cup {new}

SessionCapEnforced ==
    /\ []SessionsWithinCap
    /\ [][CreateEvictsOldestStep]_vars

\* the third session of user 1 was created when the first two were stored,
\* and the first, created before the second, is gone
SessionCapEnforcedWitness ==
    /\ ret.op = "createSession"
    /\ ret.value = 3
    /\ SessionsOf(manager, 1) = {2, 3}
    /\ manager.sessions[2].startTime = ManagerClockStep
    /\ manager.sessions[2].lastActivity = ManagerClockStep
    /\ manager.sessions[3].startTime = ManagerClockStep
    /\ manager.sessions[2].status = "initializing"

(***************************************************************************)
(* C19: a performCleanup call at time now removes the sessions whose age   *)
(* is above maxSessionAge, whose inactivity is above maxInactiveDuration   *)
(* or whose status is completed or error, and no other; it returns their   *)
(* number; a removed session is in none of the three maps, and a session   *)
(* that is kept is not changed.                                            *)
(***************************************************************************)
Expired(M, t) ==
    { id \in DOMAIN M.sessions :
          \/ t - M.sessions[id].startTime > M.cleanupConfig.maxSessionAge
          \/ t - M.sessions[id].lastActivity > M.cleanupConfig.maxInactiveDuration
          \/ M.sessions[id].status \in {"completed", "error"} }

PerformCleanupStep ==
    (now' = now /\ ret'.op = "performCleanup") =>
        LET removed == DOMAIN manager.sessions \ DOMAIN manager'.sessions IN
        /\ removed = Expired(manager, now)
        /\ DOMAIN manager'.sessions = DOMAIN manager.sessions \ removed
        /\ ret'.value = Cardinality(removed)
        /\ \A id \in removed :
               /\ StreamStateManager_getSession(manager', id) = 0
               /\ StreamStateManager_getContext(manager', id) = 0
               /\ \A userId \in DOMAIN manager'.userSessions :
                      id \notin manager'.userSessions[userId]
        /\ \A id \in DOMAIN manager'.sessions :
               /\ manager'.sessions[id] = manager.sessions[id]
               /\ manager'.contexts[id] = manager.contexts[id]

CleanupRemovesExpired == [][PerformCleanupStep]_vars

\* session 1, created at 0 with no activity since, was removed by the sweep at
\* ManagerClockStep, which kept session 2
CleanupRemovesExpiredWitness ==
    /\ ret.op = "performCleanup"
    /\ ret.arg = ManagerClockStep
    /\ ret.value = 1
    /\ ManagerClockStep > MaxInactiveDuration
    /\ ManagerClockStep <= MaxSessionAge
    /\ DOMAIN manager.sessions = {2}
    /\ manager.sessions[2].status = "active"
    /\ manager.generated = 2
(***************************************************************************)
(* TelegramStreamHandler, with the StreamErrorRecoveryManager and the      *)
(* ErrorRecoveryExecutor it owns, and the Telegram API behind them.        *)
(*                                                                         *)
(* A text is the sequence of its fragments; every fragment has the same    *)
(* length, so that currentText.substring(0, length - chunk.length) drops   *)
(* the last fragment, and no text reaches maxMessageLength.  messageId 0   *)
(* is null, sessionId 0 is null.  The handler record also keeps a history  *)
(* for the properties: recoveries (every recovery that has returned, with  *)
(* its context, its API requests and its result), fallbackAttempts (per    *)
(* message id, the FALLBACK recoveries started since the last update or    *)
(* recovery that succeeded for it), callsAfterAbort (the API requests made *)
(* after an ABORT recovery returned), statuses (the values that the status *)
(* of the handler's session has had, in order) and updates (the calls of   *)
(* rateLimiter.execute() that updateMessage has made, each with its time,  *)
(* its text and the handler call it was made for).  chunks, pauses,        *)
(* resumes, finalizes and stops count the calls made on the handler, caps  *)
(* bounds them, and lateChunks counts the fragments received after the     *)
(* first finalize(), stop() or dispose().                                  *)
(*                                                                         *)
(* The handler's asynchronous calls that have not returned are its tasks.  *)
(* A task is at one of the awaits below it:                                *)
(*   "execute"        await this.rateLimiter.execute(...)                  *)
(*   "recoveryDelay"  await this.delay(delay) of executeRetryStrategy      *)
(*   "recoveryCall"   the API request of a recovery strategy               *)
(*   "queueDelay"     await this.delay(minUpdateInterval)                  *)
(* A step runs the code from one await to the next, through the returns    *)
(* and catches that lie between.  The functions below take and return the  *)
(* world W = [handler, limiters, sink, manager]; t is Date.now().          *)
(***************************************************************************)
\* StreamConfig.minUpdateInterval, in ms (base.ts, line 1372)
MinUpdateInterval == 1000
\* executeRetryStrategy's baseDelay, in ms (part_000, line 250)
RecoveryBaseDelay == 1000
\* the calls made on a handler
MaxChunks == 2
MaxResume == 1
MaxFinalize == 1
MaxPause == 1
MaxReconfig == 1
\* the API requests that fail
MaxSinkFailures == 2
\* the clock values after the first one, while a handler runs
HandlerTicks == 1

\* the chat and the user of the model's handler
ChatId == 1
UserId == 1

\* the fragment that the k-th onStreamChunk call brings
Fragment(k) == IF k % 2 = 1 THEN "**a**" ELSE "**b**"

\* MessageConverter.formatMarkdownForTelegram (converter.ts): **text** becomes
\* *text*
FormatFragment(f) ==
    CASE f = "**a**" -> "*a*"
      [] f = "**b**" -> "*b*"
      [] OTHER -> f
MessageConverter_formatMarkdownForTelegram(text) ==
    [k \in 1..Len(text) |-> FormatFragment(text[k])]

\* the plain text of sendMessage/editMessage and stripMarkdown: *text* and
\* **text** become text
PlainFragment(f) ==
    CASE f \in {"**a**", "*a*"} -> "a"
      [] f \in {"**b**", "*b*"} -> "b"
      [] OTHER -> f
PlainText(text) == [k \in 1..Len(text) |-> PlainFragment(text[k])]

\* text.substring(0, text.length - chunk.length)
DropLast(text) == IF Len(text) = 0 THEN text ELSE SubSeq(text, 1, Len(text) - 1)

\* Math.pow(b, n)
RECURSIVE Pow(_, _)
Pow(b, n) == IF n = 0 THEN 1 ELSE b * Pow(b, n - 1)

\* the recoveryAttempts map: get (0 when absent), set, delete
Attempts(m, key) == IF key \in DOMAIN m THEN m[key] ELSE 0
SetAttempts(m, key, n) ==
    [k \in DOMAIN m \cup {key} |-> IF k = key THEN n ELSE m[k]]
DeleteAttempts(m, key) == [k \in DOMAIN m \ {key} |-> m[k]]

\* how many calls of each kind a specification makes on its handler
Calls(chunks, pauses, resumes, finalizes, stops) ==
    [chunks |-> chunks, pauses |-> pauses, resumes |-> resumes,
     finalizes |-> finalizes, stops |-> stops]

\* constructor
TelegramStreamHandler_new ==
    [messageId |-> 0, currentText |-> <<>>, lastSentText |-> <<>>,
     lastUpdateTime |-> 0, isActive |-> FALSE, isPaused |-> FALSE,
     updateQueue |-> <<>>, rateLimiter |-> 1, sessionId |-> 0,
     recoveryAttempts |-> <<>>, tasks |-> {},
     chunks |-> 0, resumes |-> 0, finalizes |-> 0, pauses |-> 0, stops |-> 0, lateChunks |-> 0,
     caps |-> Calls(MaxChunks, MaxPause, MaxResume, MaxFinalize, 0),
     updates |-> <<>>,
     recoveries |-> <<>>, fallbackAttempts |-> <<>>, callsAfterAbort |-> 0,
     statuses |-> <<>>]

\* the API with no request in flight; it answers with one of errors, at most
\* maxFailures times; served are the requests it has answered with success, each
\* with the id of the message it sent or edited
Sink_new(errors, maxFailures) ==
    [calls |-> {}, nextMessageId |-> 1, failures |-> 0, errors |-> errors,
     maxFailures |-> maxFailures, served |-> <<>>]

\* the handler's call of the state manager has returned M: the status of its
\* session is noted if the call changed it
Noted(W, M) ==
    LET sessionId == IF W.handler.sessionId = 0 THEN M.generated
                     ELSE W.handler.sessionId
        statuses == W.handler.statuses
    IN  IF /\ sessionId \in DOMAIN M.sessions
           /\ \/ statuses = <<>>
              \/ statuses[Len(statuses)] # M.sessions[sessionId].status
        THEN [W EXCEPT !.manager = M,
                       !.handler.statuses = Append(@, M.sessions[sessionId].status)]
        ELSE [W EXCEPT !.manager = M]

\* no recovery is under way in a task
NoRecovery == <<>>

\* the RecoveryContext and ErrorAnalysis of a recovery that starts, with the
\* operation that failed (failed) and the API requests the recovery makes (calls)
Recovery(analysis, key, retryCount, text, failed) ==
    [type |-> analysis.type, strategy |-> analysis.strategy,
     maxRetries |-> analysis.maxRetries, messageId |-> key, failed |-> failed,
     operationType |-> IF key = 0 THEN "send" ELSE "edit",
     retryCount |-> retryCount, currentText |-> text, calls |-> <<>>]

\* an abort recovery has returned
Aborted(h) ==
    \E k \in 1..Len(h.recoveries) : h.recoveries[k].recovery.strategy = "abort"

TaskOf(W, tid) == CHOOSE x \in W.handler.tasks : x.id = tid
SetTask(W, task) ==
    [W EXCEPT !.handler.tasks = { x \in @ : x.id # task.id } \cup {task}]
EndTask(W, tid) == [W EXCEPT !.handler.tasks = { x \in @ : x.id # tid }]

\* a call of entry (onStreamChunk, resume, finalize) that has just been made
NewTask(W, entry, stage, chunk) ==
    LET used == { x.id : x \in W.handler.tasks }
        id == CHOOSE n \in 1..(Cardinality(used) + 1) :
                  n \notin used /\ \A m \in 1..(n - 1) : m \in used
    IN  [id |-> id, entry |-> entry, stage |-> stage, pc |-> "run",
         chunk |-> chunk, messageText |-> <<>>, method |-> "", limiter |-> 0,
         request |-> 0, key |-> 0, wakeAt |-> 0, recovery |-> NoRecovery]

\* task at an await of updateMessage, holding messageText
AtAwait(task, pc, messageText, method, limiter, request, key, wakeAt) ==
    [task EXCEPT !.pc = pc, !.messageText = messageText, !.method = method,
                 !.limiter = limiter, !.request = request, !.key = key,
                 !.wakeAt = wakeAt]

\* makeApiRequest: fetch() sends a request; limiter and loop name the
\* executeRequest that awaits it, limiter 0 a recovery that called directly
Sink_request(W, tid, limiter, loop, method, messageId, text, parseMode) ==
    LET call == [task |-> tid, limiter |-> limiter, loop |-> loop,
                 method |-> method, messageId |-> messageId, text |-> text,
                 parseMode |-> parseMode]
        W1 == [W EXCEPT !.sink.calls = @ \cup {call},
                        !.handler.callsAfterAbort =
                            IF Aborted(W.handler) THEN @ + 1 ELSE @]
    IN  IF limiter = 0
        THEN SetTask(W1, [TaskOf(W1, tid) EXCEPT !.recovery.calls =
                             Append(@, [method |-> method, messageId |-> messageId,
                                        text |-> text, parseMode |-> parseMode,
                                        ok |-> FALSE])])
        ELSE W1

\* sendMessage(text), to its first await
TelegramStreamHandler_sendMessage(W, tid, limiter, loop, text) ==
    Sink_request(W, tid, limiter, loop, "sendMessage", 0, text, "Markdown")

\* editMessage(text), to its first await; it returns at once without a messageId
TelegramStreamHandler_editMessage(W, tid, limiter, loop, text) ==
    IF W.handler.messageId = 0
    THEN W
    ELSE Sink_request(W, tid, limiter, loop, "editMessageText",
                      W.handler.messageId, text, "Markdown")

\* request.data() of the request that loop lid of limiter i has started, if the
\* limiter's executions went up from before
StartOperation(W, i, lid, before) ==
    IF W.limiters[i].executions = before
    THEN W
    ELSE LET request == LoopOf(W.limiters[i], lid).request
             task == CHOOSE x \in W.handler.tasks :
                         x.pc = "execute" /\ x.limiter = i /\ x.request = request.id
         IN  IF task.method = "sendMessage"
             THEN TelegramStreamHandler_sendMessage(W, task.id, i, lid, task.messageText)
             ELSE TelegramStreamHandler_editMessage(W, task.id, i, lid, task.messageText)

RECURSIVE TelegramStreamHandler_updateMessage(_, _, _)

\* finalize, lines 1487-1519, reached when its updateMessage() is not needed or
\* has returned
TelegramStreamHandler_finalizeDone(W, tid, t) ==
    LET h == W.handler
        W1 == Noted([W EXCEPT !.handler.isActive = FALSE],
                    StreamStateManager_updateSessionStatus(
                        W.manager, h.sessionId, "completed", t))
        M2 == IF h.currentText # <<>>
              THEN StreamStateManager_addMessageVersion(
                       W1.manager, h.sessionId, h.currentText, TRUE, h.messageId, t)
              ELSE W1.manager
    IN  EndTask([W1 EXCEPT !.manager = M2], tid)

\* finalize, lines 1487-1495, after processUpdateQueue() has returned
TelegramStreamHandler_finalizeTail(W, tid, t) ==
    IF /\ W.handler.currentText # <<>>
       /\ W.handler.currentText # W.handler.lastSentText
    THEN TelegramStreamHandler_updateMessage(
             SetTask(W, [TaskOf(W, tid) EXCEPT !.stage = "final", !.chunk = ""]),
             tid, t)
    ELSE TelegramStreamHandler_finalizeDone(W, tid, t)

\* processUpdateQueue() returns to resume() or to finalize()
TelegramStreamHandler_afterProcessUpdateQueue(W, tid, t) ==
    IF TaskOf(W, tid).entry = "resume"
    THEN EndTask(W, tid)
    ELSE TelegramStreamHandler_finalizeTail(W, tid, t)

\* updateMessage() returns (ok) or throws to the code that awaits it:
\* onStreamChunk lines 1455-1463, processUpdateQueue lines 1597-1614, finalize
TelegramStreamHandler_afterUpdateMessage(W, tid, ok, t) ==
    LET task == TaskOf(W, tid)
        rolledBack == [W EXCEPT !.handler.currentText = DropLast(@)]
    IN  CASE task.stage = "chunk" ->
                 IF ok
                 THEN EndTask(W, tid)
                 ELSE EndTask([rolledBack EXCEPT !.handler.updateQueue =
                                                     Append(@, task.chunk)], tid)
          [] task.stage = "drain" ->
                 LET W1 == IF ok
                           THEN [W EXCEPT !.handler.lastUpdateTime = t]
                           ELSE [rolledBack EXCEPT !.handler.updateQueue =
                                                       <<task.chunk>> \o @]
                 IN  IF ok /\ Len(W1.handler.updateQueue) > 0
                     THEN SetTask(W1, AtAwait(task, "queueDelay", <<>>, "", 0, 0, 0,
                                              t + MinUpdateInterval))
                     ELSE TelegramStreamHandler_afterProcessUpdateQueue(W1, tid, t)
          [] task.stage = "final" ->
                 IF ok
                 THEN TelegramStreamHandler_finalizeDone(W, tid, t)
                 ELSE EndTask(W, tid)

\* updateMessage, lines 1657-1696: rateLimiter.execute() resolved with value
\* (the message_id of a sent message, 0 for an edit)
TelegramStreamHandler_onExecuteResolved(W, tid, value, t) ==
    LET task == TaskOf(W, tid)
        recorded(messageId) ==
            StreamStateManager_addMessageVersion(
                W.manager, W.handler.sessionId, task.messageText, TRUE, messageId, t)
        W1 == IF task.method = "sendMessage"
              THEN IF value # 0
                   THEN [W EXCEPT !.handler.messageId = value,
                                  !.handler.lastSentText = task.messageText,
                                  !.manager = recorded(value)]
                   ELSE W
              ELSE [W EXCEPT !.handler.lastSentText = task.messageText,
                             !.manager = recorded(W.handler.messageId)]
        W2 == [W1 EXCEPT !.handler.lastUpdateTime = t,
                         !.handler.recoveryAttempts =
                             DeleteAttempts(@, W1.handler.messageId),
                         !.handler.fallbackAttempts =
                             DeleteAttempts(@, W1.handler.messageId)]
    IN  TelegramStreamHandler_afterUpdateMessage(
            SetTask(W2, AtAwait(task, "run", <<>>, "", 0, 0, 0, 0)), tid, TRUE, t)

\* handleStreamError lines 451-466 and updateMessage lines 1723-1742: the
\* recovery has returned its result
TelegramStreamHandler_onRecoveryResult(W, tid, success, newMessageId, t) ==
    LET task == TaskOf(W, tid)
        result == [success |-> success, newMessageId |-> newMessageId]
        W0 == [W EXCEPT !.handler.recoveries =
                            Append(@, [recovery |-> task.recovery,
                                       result |-> result]),
                        !.manager =
                            IF success
                            THEN @
                            ELSE StreamStateManager_recordRetry(
                                     @, W.handler.sessionId, t)]
        W1 == SetTask(W0, [AtAwait(task, "run", <<>>, "", 0, 0, 0, 0)
                               EXCEPT !.recovery = NoRecovery])
        W2 == [W1 EXCEPT !.handler.recoveryAttempts =
                             DeleteAttempts(@, task.key),
                         !.handler.fallbackAttempts =
                             DeleteAttempts(@, task.key)]
        W3 == IF newMessageId # 0
              THEN [W2 EXCEPT !.handler.messageId = newMessageId,
                              !.handler.lastSentText = task.messageText,
                              !.handler.lastUpdateTime = t]
              ELSE W2
    IN  TelegramStreamHandler_afterUpdateMessage(
            IF success THEN W3 ELSE W1, tid, success, t)

\* updateMessage lines 1697-1721, handleStreamError lines 436-449 and
\* executeRecovery with the strategy it chooses, to the strategy's first await:
\* rateLimiter.execute() rejected with error while the task held messageText
StreamErrorRecoveryManager_handleStreamError(W, tid, error, t) ==
    LET task == TaskOf(W, tid)
        messageText == task.messageText
        key == W.handler.messageId
        retryCount == Attempts(W.handler.recoveryAttempts, key)
        analysis == TelegramErrorAnalyzer_analyzeError(error)
        W1 == [W EXCEPT !.handler.recoveryAttempts =
                            SetAttempts(@, key, retryCount + 1),
                        !.handler.fallbackAttempts =
                            IF analysis.strategy = "fallback"
                            THEN SetAttempts(@, key, Attempts(@, key) + 1)
                            ELSE @,
                        !.manager = StreamStateManager_recordError(
                                        @, W.handler.sessionId, t),
                        !.handler.statuses =
                            Noted(W, StreamStateManager_recordError(
                                         W.manager, W.handler.sessionId, t))
                                .handler.statuses]
        waiting(pc, wakeAt) ==
            [AtAwait(task, pc, messageText, "", 0, 0, key, wakeAt)
                 EXCEPT !.recovery = Recovery(analysis, key, retryCount, messageText,
                                            task.method)]
        W2 == SetTask(W1, waiting("recoveryCall", 0))
    IN  CASE analysis.strategy = "retry" /\ retryCount < analysis.maxRetries ->
                 SetTask(W1, waiting("recoveryDelay",
                     t + (RecoveryBaseDelay
                              * Pow(analysis.backoffMultiplier, retryCount))
                             \div Pow(10, retryCount)))
          [] analysis.strategy = "fallback" ->
                 Sink_request(W2, tid, 0, 0, "editMessageText", key,
                              PlainText(messageText), "none")
          [] analysis.strategy = "recreate_message" ->
                 TelegramStreamHandler_sendMessage(W2, tid, 0, 0, messageText)
          \* a retry that is out of retries and an abort return failure, a skip
          \* returns success, none of them with an await
          [] OTHER ->
                 TelegramStreamHandler_onRecoveryResult(
                     W2, tid, analysis.strategy = "skip", 0, t)

\* executeRetryStrategy, lines 256-262, after its delay: editMessageFn is called
ErrorRecoveryExecutor_afterDelay(W, tid, t) ==
    LET task == TaskOf(W, tid)
        W1 == SetTask(W, [task EXCEPT !.pc = "recoveryCall", !.wakeAt = 0])
    IN  IF W.handler.messageId = 0
        THEN TelegramStreamHandler_onRecoveryResult(W1, tid, TRUE, 0, t)
        ELSE TelegramStreamHandler_editMessage(W1, tid, 0, 0, task.messageText)

\* a request of limiter i was settled in this step: the task that awaits it goes on
AfterSettle(W, i, id, before, t) ==
    LET result == W.limiters[i].results[id] IN
    IF before.status # "pending" \/ result.status = "pending"
       \/ ~\E x \in W.handler.tasks :
              x.pc = "execute" /\ x.limiter = i /\ x.request = id
    THEN W
    ELSE LET task == CHOOSE x \in W.handler.tasks :
                         x.pc = "execute" /\ x.limiter = i /\ x.request = id
         IN  IF result.status = "resolved"
             THEN TelegramStreamHandler_onExecuteResolved(W, task.id, result.value, t)
             ELSE StreamErrorRecoveryManager_handleStreamError(
                      W, task.id, result.error, t)

\* updateMessage(), to its first await.  The texts of a stream of fragments
\* are far shorter than maxMessageLength, so lines 1623-1639 leave them as
\* they are; the truncation is TelegramStreamHandler_truncate, on characters.
TelegramStreamHandler_updateMessage(W, tid, t) ==
    LET h == W.handler
        messageText == MessageConverter_formatMarkdownForTelegram(h.currentText)
    IN  IF h.lastSentText = messageText
        THEN TelegramStreamHandler_afterUpdateMessage(W, tid, TRUE, t)
        ELSE LET i == h.rateLimiter
                 L == W.limiters[i]
                 id == Len(L.results) + 1
                 send == h.messageId = 0
                 task == AtAwait(TaskOf(W, tid), "execute", messageText,
                                 IF send THEN "sendMessage" ELSE "editMessageText",
                                 i, id, 0, 0)
                 W1 == SetTask([W EXCEPT !.limiters[i] =
                                   AdvancedRateLimiter_execute(
                                       L, id, IF send THEN HIGH ELSE NORMAL, t),
                                         !.handler.updates =
                                   Append(@, [at |-> t, entry |-> task.entry,
                                              text |-> messageText])],
                               task)
             IN  AfterSettle(StartOperation(W1, i, id, L.executions),
                             i, id, Pending, t)

\* processUpdateQueue(): the while test and one turn of the loop, to its await
TelegramStreamHandler_processUpdateQueue(W, tid, t) ==
    IF Len(W.handler.updateQueue) > 0
    THEN LET chunk == Head(W.handler.updateQueue)
             W1 == [W EXCEPT !.handler.updateQueue = Tail(@),
                             !.handler.currentText = Append(@, chunk)]
         IN  TelegramStreamHandler_updateMessage(
                 SetTask(W1, [TaskOf(W1, tid) EXCEPT !.chunk = chunk]), tid, t)
    ELSE TelegramStreamHandler_afterProcessUpdateQueue(W, tid, t)

\* initialize()
TelegramStreamHandler_initialize(W, t) ==
    LET W1 == Noted([W EXCEPT !.handler.isActive = TRUE,
                              !.handler.currentText = <<>>,
                              !.handler.messageId = 0,
                              !.handler.lastUpdateTime = 0,
                              !.handler.updateQueue = <<>>,
                              !.handler.sessionId = 0],
                    StreamStateManager_createSession(W.manager, ChatId, UserId, t))
        sessionId == W1.manager.generated
    IN  Noted([W1 EXCEPT !.handler.sessionId = sessionId],
              StreamStateManager_updateSessionStatus(
                  W1.manager, sessionId, "active", t))

\* an onStreamChunk that does not test isPaused
TelegramStreamHandler_onStreamChunk_ignoresPause(W, chunk, t) ==
    LET h == W.handler
        W1 == [W EXCEPT !.manager =
                            StreamStateManager_recordChunk(@, h.sessionId, t)]
    IN  IF ~h.isActive
        THEN [W EXCEPT !.handler.updateQueue = Append(@, chunk)]
        ELSE IF t - h.lastUpdateTime < MinUpdateInterval
        THEN [W1 EXCEPT !.handler.updateQueue = Append(@, chunk)]
        ELSE LET task == NewTask(W1, "onStreamChunk", "chunk", chunk) IN
             TelegramStreamHandler_updateMessage(
                 SetTask([W1 EXCEPT !.handler.currentText = Append(@, chunk)], task),
                 task.id, t)

\* onStreamChunk(chunk)
TelegramStreamHandler_onStreamChunk(W, chunk, t) ==
    LET h == W.handler
        W1 == [W EXCEPT !.manager =
                            StreamStateManager_recordChunk(@, h.sessionId, t)]
    IN  IF ~h.isActive \/ h.isPaused
        THEN [W EXCEPT !.handler.updateQueue = Append(@, chunk)]
        ELSE IF t - h.lastUpdateTime < MinUpdateInterval
        THEN [W1 EXCEPT !.handler.updateQueue = Append(@, chunk)]
        ELSE LET task == NewTask(W1, "onStreamChunk", "chunk", chunk) IN
             TelegramStreamHandler_updateMessage(
                 SetTask([W1 EXCEPT !.handler.currentText = Append(@, chunk)], task),
                 task.id, t)

\* finalize() without a finalText
TelegramStreamHandler_finalize(W, t) ==
    LET task == NewTask(W, "finalize", "drain", "")
        W1 == Noted(W, StreamStateManager_updateSessionStatus(
                           W.manager, W.handler.sessionId, "finalizing", t))
    IN  TelegramStreamHandler_processUpdateQueue(SetTask(W1, task), task.id, t)

\* pause()
TelegramStreamHandler_pause(W, t) ==
    Noted([W EXCEPT !.handler.isPaused = TRUE],
          StreamStateManager_updateSessionStatus(
              W.manager, W.handler.sessionId, "paused", t))

\* resume()
TelegramStreamHandler_resume(W, t) ==
    LET task == NewTask(W, "resume", "drain", "")
        W1 == Noted([W EXCEPT !.handler.isPaused = FALSE],
                    StreamStateManager_updateSessionStatus(
                        W.manager, W.handler.sessionId, "active", t))
    IN  TelegramStreamHandler_processUpdateQueue(SetTask(W1, task), task.id, t)

\* stop()
TelegramStreamHandler_stop(W) ==
    [W EXCEPT !.handler.isActive = FALSE,
              !.handler.isPaused = FALSE,
              !.handler.updateQueue = <<>>]

\* the tasks whose requests dispose() rejected go on, in the order of the queue
RECURSIVE AfterDispose(_, _, _, _)
AfterDispose(W, i, queue, t) ==
    IF Len(queue) = 0
    THEN W
    ELSE AfterDispose(AfterSettle(W, i, Head(queue).id, Pending, t),
                      i, Tail(queue), t)

\* updateRateLimitConfig(config): the limiter is disposed and replaced
TelegramStreamHandler_updateRateLimitConfig(W, t) ==
    LET i == W.handler.rateLimiter
        queue == W.limiters[i].requestQueue
        W1 == [W EXCEPT !.limiters =
                            Append([@ EXCEPT ![i] = AdvancedRateLimiter_dispose(@, t)],
                                   AdvancedRateLimiter_new(t, MaxQueueSize)),
                        !.handler.rateLimiter = Len(W.limiters) + 1]
    IN  AfterDispose(W1, i, queue, t)

\* dispose(): stop(), and the limiter is disposed
TelegramStreamHandler_dispose(W, t) ==
    LET i == W.handler.rateLimiter
        queue == W.limiters[i].requestQueue
        W1 == TelegramStreamHandler_stop(W)
    IN  AfterDispose([W1 EXCEPT !.limiters[i] = AdvancedRateLimiter_dispose(@, t)],
                     i, queue, t)

\* the API answers a request with success: a sent message gets the next id
Sink_succeeds(W, call, t) ==
    LET value == IF call.method = "sendMessage" THEN W.sink.nextMessageId ELSE 0
        W1 == [W EXCEPT !.sink.calls = @ \ {call},
                        !.sink.nextMessageId =
                            IF call.method = "sendMessage" THEN @ + 1 ELSE @,
                        !.sink.served =
                            Append(@, [method |-> call.method,
                                       messageId |-> IF call.method = "sendMessage"
                                                     THEN value ELSE call.messageId,
                                       text |-> call.text])]
    IN  IF call.limiter = 0
        THEN TelegramStreamHandler_onRecoveryResult(
                 SetTask(W1, [TaskOf(W1, call.task) EXCEPT
                                  !.recovery.calls =
                                      [@ EXCEPT ![Len(@)].ok = TRUE]]),
                 call.task, TRUE, value, t)
        ELSE LET L == W1.limiters[call.limiter]
                 id == LoopOf(L, call.loop).request.id
             IN  AfterSettle(
                     [W1 EXCEPT !.limiters[call.limiter] =
                          AdvancedRateLimiter_onSuccess(L, call.loop, value)],
                     call.limiter, id, L.results[id], t)

\* the API answers a request with an error: the Markdown attempt of
\* sendMessage/editMessage is followed by a plain-text one, any other failure
\* is thrown to the limiter or to the recovery that made the call
Sink_fails(W, call, error, jitter, t) ==
    LET W1 == [W EXCEPT !.sink.calls = @ \ {call}, !.sink.failures = @ + 1] IN
    IF call.parseMode = "Markdown"
    THEN Sink_request(W1, call.task, call.limiter, call.loop, call.method,
                      IF call.method = "sendMessage" THEN 0 ELSE W1.handler.messageId,
                      PlainText(call.text), "none")
    ELSE IF call.limiter = 0
    THEN TelegramStreamHandler_onRecoveryResult(W1, call.task, FALSE, 0, t)
    ELSE LET L == W1.limiters[call.limiter]
             id == LoopOf(L, call.loop).request.id
         IN  AfterSettle(
                 [W1 EXCEPT !.limiters[call.limiter] =
                      AdvancedRateLimiter_onFailure(L, call.loop, error, jitter, t)],
                 call.limiter, id, L.results[id], t)

(***************************************************************************)
(* SpecHandler: one TelegramStreamHandler, initialized and then driven by  *)
(* onStreamChunk, pause, resume, finalize and updateRateLimitConfig calls, *)
(* by the answers of the API, by the timers and by the clock.              *)
(***************************************************************************)
\* the errors the API answers with
SinkErrors == {MsgTooManyRequests, MsgEditNotFound, MsgBadGateway}

HandlerTimes == { k * LimiterClockStep : k \in 1..(HandlerTicks + 1) }

World ==
    [handler |-> handler, limiters |-> limiters, sink |-> sink,
     manager |-> manager]

Becomes(W) ==
    /\ handler' = W.handler
    /\ limiters' = W.limiters
    /\ sink' = W.sink
    /\ manager' = W.manager

HandlerClockAdvance ==
    /\ \E t \in HandlerTimes : t > now /\ now' = t
    /\ UNCHANGED <<standaloneVars, pipelineVars>>

Initialize ==
    /\ handler.sessionId = 0
    /\ Becomes(TelegramStreamHandler_initialize(World, now))
    /\ UNCHANGED <<now, standaloneVars>>

OnStreamChunk ==
    /\ handler.sessionId # 0
    /\ handler.chunks < handler.caps.chunks
    /\ Becomes(TelegramStreamHandler_onStreamChunk(
           [World EXCEPT !.handler.chunks = @ + 1,
                         !.handler.lateChunks =
                             IF handler.finalizes + handler.stops > 0
                             THEN @ + 1 ELSE @],
           Fragment(handler.chunks + 1), now))
    /\ UNCHANGED <<now, standaloneVars>>

Pause ==
    /\ handler.sessionId # 0
    /\ handler.pauses < handler.caps.pauses
    /\ Becomes(TelegramStreamHandler_pause(
           [World EXCEPT !.handler.pauses = @ + 1], now))
    /\ UNCHANGED <<now, standaloneVars>>

Resume ==
    /\ handler.sessionId # 0
    /\ handler.resumes < handler.caps.resumes
    /\ Becomes(TelegramStreamHandler_resume(
           [World EXCEPT !.handler.resumes = @ + 1], now))
    /\ UNCHANGED <<now, standaloneVars>>

Finalize ==
    /\ handler.sessionId # 0
    /\ handler.finalizes < handler.caps.finalizes
    /\ Becomes(TelegramStreamHandler_finalize(
           [World EXCEPT !.handler.finalizes = @ + 1], now))
    /\ UNCHANGED <<now, standaloneVars>>

UpdateRateLimitConfig ==
    /\ handler.sessionId # 0
    /\ Len(limiters) < MaxReconfig + 1
    /\ Becomes(TelegramStreamHandler_updateRateLimitConfig(World, now))
    /\ UNCHANGED <<now, standaloneVars>>

Stop ==
    /\ handler.sessionId # 0
    /\ handler.stops < handler.caps.stops
    /\ Becomes(TelegramStreamHandler_stop([World EXCEPT !.handler.stops = @ + 1]))
    /\ UNCHANGED <<now, standaloneVars>>

Dispose ==
    /\ handler.sessionId # 0
    /\ handler.stops < handler.caps.stops
    /\ Becomes(TelegramStreamHandler_dispose(
           [World EXCEPT !.handler.stops = @ + 1], now))
    /\ UNCHANGED <<now, standaloneVars>>

\* the timer of processUpdateQueue's delay fires
QueueDelayDone(tid) ==
    /\ TaskOf(World, tid).pc = "queueDelay"
    /\ now >= TaskOf(World, tid).wakeAt
    /\ Becomes(TelegramStreamHandler_processUpdateQueue(
           SetTask(World, [TaskOf(World, tid) EXCEPT !.pc = "run", !.wakeAt = 0]),
           tid, now))
    /\ UNCHANGED <<now, standaloneVars>>

\* the timer of executeRetryStrategy's delay fires
RecoveryDelayDone(tid) ==
    /\ TaskOf(World, tid).pc = "recoveryDelay"
    /\ now >= TaskOf(World, tid).wakeAt
    /\ Becomes(ErrorRecoveryExecutor_afterDelay(World, tid, now))
    /\ UNCHANGED <<now, standaloneVars>>

SinkSucceeds(call) ==
    /\ Becomes(Sink_succeeds(World, call, now))
    /\ UNCHANGED <<now, standaloneVars>>

SinkFails(call, error, jitter) ==
    /\ sink.failures < sink.maxFailures
    /\ error \in sink.errors
    /\ error = MsgEditNotFound => call.method = "editMessageText"
    /\ Becomes(Sink_fails(World, call, error, jitter, now))
    /\ UNCHANGED <<now, standaloneVars>>

\* the timer of a limiter's throttle wait fires
HandlerThrottleDone(i, lid) ==
    /\ LoopOf(limiters[i], lid).pc = "throttle"
    /\ now >= LoopOf(limiters[i], lid).wakeAt
    /\ Becomes(StartOperation(
           [World EXCEPT !.limiters[i] = AdvancedRateLimiter_afterThrottle(@, lid)],
           i, lid, limiters[i].executions))
    /\ UNCHANGED <<now, standaloneVars>>

\* the timer of a limiter's backoff wait fires
HandlerBackoffDone(i, lid) ==
    /\ LoopOf(limiters[i], lid).pc = "backoff"
    /\ now >= LoopOf(limiters[i], lid).wakeAt
    /\ LET id == LoopOf(limiters[i], lid).request.id IN
       Becomes(AfterSettle(
           [World EXCEPT !.limiters[i] = AdvancedRateLimiter_afterBackoff(@, lid)],
           i, id, limiters[i].results[id], now))
    /\ UNCHANGED <<now, standaloneVars>>

\* a limiter's processQueue() resumes after executeRequest has returned
HandlerProcessNext(i, lid) ==
    /\ LoopOf(limiters[i], lid).pc = "next"
    /\ Becomes(StartOperation(
           [World EXCEPT !.limiters[i] = AdvancedRateLimiter_processNext(@, lid, now)],
           i, lid, limiters[i].executions))
    /\ UNCHANGED <<now, standaloneVars>>

InitHandler ==
    /\ now = LimiterClockStep
    /\ bucket = TokenBucket_new(now)
    /\ ret = NoCall
    /\ consecutiveFailures = 0
    /\ limiters = <<AdvancedRateLimiter_new(now, MaxQueueSize)>>
    /\ handler = TelegramStreamHandler_new
    /\ sink = Sink_new(SinkErrors, MaxSinkFailures)
    /\ manager = StreamStateManager_new(MaxSessionAge, MaxInactiveDuration,
                                        MaxSessionsPerUser)

NextHandler ==
    \/ HandlerClockAdvance
    \/ Initialize
    \/ OnStreamChunk
    \/ Pause
    \/ Resume
    \/ Finalize
    \/ UpdateRateLimitConfig
    \/ \E x \in handler.tasks : QueueDelayDone(x.id)
    \/ \E x \in handler.tasks : RecoveryDelayDone(x.id)
    \/ \E call \in sink.calls : SinkSucceeds(call)
    \/ \E call \in sink.calls, error \in sink.errors, jitter \in LimiterJitters :
           SinkFails(call, error, jitter)
    \/ \E i \in DOMAIN limiters : \E l \in limiters[i].loops :
           HandlerThrottleDone(i, l.id)
    \/ \E i \in DOMAIN limiters : \E l \in limiters[i].loops :
           HandlerBackoffDone(i, l.id)
    \/ \E i \in DOMAIN limiters : \E l \in limiters[i].loops :
           HandlerProcessNext(i, l.id)

SpecHandler == InitHandler /\ [][NextHandler]_vars

(***************************************************************************)
(* C4, as the claim has it: in the handler's session no two API requests   *)
(* that edit the same remote message are in flight at the same time.       *)
(***************************************************************************)
OneSinkCallInFlight ==
    \A c1, c2 \in sink.calls :
        (/\ c1.method = "editMessageText"
         /\ c2.method = "editMessageText"
         /\ c1.messageId # 0
         /\ c1.messageId = c2.messageId)
            => c1 = c2


\* the recoveries that have returned, each with its context, requests and result
Recoveries == { handler.recoveries[k] : k \in 1..Len(handler.recoveries) }

(***************************************************************************)
(* C13, as the claim has it: a RETRY recovery whose retry count has        *)
(* reached the class's maxRetries fails without an API request; any other  *)
(* RETRY recovery makes exactly one request, the operation that failed     *)
(* with the text unchanged, and reports success only if that request       *)
(* succeeded.                                                              *)
(***************************************************************************)
RetryRecoveryAsClaimed ==
    \A r \in Recoveries :
        r.recovery.strategy = "retry" =>
            IF r.recovery.retryCount >= r.recovery.maxRetries
            THEN /\ ~r.result.success
                 /\ r.recovery.calls = <<>>
            ELSE /\ Len(r.recovery.calls) = 1
                 /\ r.recovery.calls[1].method = r.recovery.failed
                 /\ r.recovery.calls[1].text = r.recovery.currentText
                 /\ r.result.success => r.recovery.calls[1].ok

(***************************************************************************)
(* C14, as the claim has it: the recovery of an edit that failed because   *)
(* its message is gone makes exactly one API request, a sendMessage with   *)
(* the current text; once such a recovery has succeeded, the handler and   *)
(* the stored session hold the same message id, that of the new message,   *)
(* and every edit in flight is for the message id the handler holds.       *)
(***************************************************************************)
RecreateAsClaimed ==
    /\ \A r \in Recoveries :
           (r.recovery.strategy = "recreate_message"
                /\ r.recovery.failed = "editMessageText") =>
               /\ Len(r.recovery.calls) = 1
               /\ r.recovery.calls[1].method = "sendMessage"
               /\ r.recovery.calls[1].text = r.recovery.currentText
    /\ (\E r \in Recoveries :
            /\ r.recovery.strategy = "recreate_message"
            /\ r.recovery.failed = "editMessageText"
            /\ r.result.success
            /\ r.result.newMessageId # 0) =>
           /\ manager.sessions[handler.sessionId].messageId = handler.messageId
           /\ \A call \in sink.calls :
                  call.method = "editMessageText" =>
                      call.messageId = handler.messageId

(***************************************************************************)
(* C20, as the claim has it: the status of the handler's session changes   *)
(* only along initializing -> active -> (paused <-> active) -> finalizing  *)
(* -> completed | error | timeout, and never once it is completed, error   *)
(* or timeout.  A status that is not yet completed, error or timeout may   *)
(* become error or timeout, and a paused session may be finalized.         *)
(***************************************************************************)
StatusTransitions ==
    { <<"initializing", "active">>, <<"active", "paused">>, <<"paused", "active">>,
      <<"active", "finalizing">>, <<"paused", "finalizing">>,
      <<"finalizing", "completed">> }
        \cup ({"initializing", "active", "paused", "finalizing"}
                  \X {"error", "timeout"})

StatusFollowsLifecycle ==
    \A k \in 1..(Len(handler.statuses) - 1) :
        <<handler.statuses[k], handler.statuses[k + 1]>> \in StatusTransitions


(***************************************************************************)
(* SpecRecovery: the handler with an API that rejects the content of a     *)
(* message or denies the bot the right to write, more often than the API   *)
(* of SpecHandler fails; the handler is initialized, gets its fragments    *)
(* and is finalized.  The clock ends before a delay of processUpdateQueue  *)
(* can have elapsed (the bucket is empty after two requests, so the first  *)
(* update of finalize() starts at the last instant), hence no timer of     *)
(* that delay is among the actions.                                        *)
(***************************************************************************)
\* the API requests that fail
MaxRecoveryFailures == 5

RecoveryErrors == {MsgCantParse, MsgNoRights}

InitRecovery ==
    /\ now = LimiterClockStep
    /\ bucket = TokenBucket_new(now)
    /\ ret = NoCall
    /\ consecutiveFailures = 0
    /\ limiters = <<AdvancedRateLimiter_new(now, MaxQueueSize)>>
    /\ handler = TelegramStreamHandler_new
    /\ sink = Sink_new(RecoveryErrors, MaxRecoveryFailures)
    /\ manager = StreamStateManager_new(MaxSessionAge, MaxInactiveDuration,
                                        MaxSessionsPerUser)

NextRecovery ==
    \/ HandlerClockAdvance
    \/ Initialize
    \/ OnStreamChunk
    \/ Finalize
    \/ \E call \in sink.calls : SinkSucceeds(call)
    \/ \E call \in sink.calls, error \in sink.errors, jitter \in LimiterJitters :
           SinkFails(call, error, jitter)
    \/ \E i \in DOMAIN limiters : \E l \in limiters[i].loops :
           HandlerThrottleDone(i, l.id)
    \/ \E i \in DOMAIN limiters : \E l \in limiters[i].loops :
           HandlerProcessNext(i, l.id)

SpecRecovery == InitRecovery /\ [][NextRecovery]_vars

(***************************************************************************)
(* C15, as the claim has it: once a recovery has ended with ABORT (the     *)
(* failure was permission denied or the bot is blocked), the recovery has  *)
(* reported failure, the status of the session is completed, error or      *)
(* timeout, and no API request is made for the session any more.           *)
(***************************************************************************)
AbortTerminatesSession ==
    (\E r \in Recoveries : r.recovery.strategy = "abort") =>
        /\ manager.sessions[handler.sessionId].status
               \in {"completed", "error", "timeout"}
        /\ handler.callsAfterAbort = 0
        /\ \A r \in Recoveries :
               r.recovery.strategy = "abort" => ~r.result.success

(***************************************************************************)
(* C16, as the claim has it: a FALLBACK recovery makes exactly one API     *)
(* request, an editMessageText of the message that the failed update was   *)
(* for, with the plain text and no parse mode, and no sendMessage; and for *)
(* a message id, no more FALLBACK recoveries than the class's maxRetries,  *)
(* 1, are started without an update or a recovery succeeding in between.   *)
(***************************************************************************)
FallbackAsClaimed ==
    /\ \A r \in Recoveries :
           r.recovery.strategy = "fallback" =>
               /\ Len(r.recovery.calls) = 1
               /\ r.recovery.calls[1].method = "editMessageText"
               /\ r.recovery.calls[1].messageId = r.recovery.messageId
               /\ r.recovery.calls[1].text = PlainText(r.recovery.currentText)
               /\ r.recovery.calls[1].parseMode = "none"
               /\ r.recovery.maxRetries = 1
    /\ \A key \in DOMAIN handler.fallbackAttempts :
           handler.fallbackAttempts[key] <= 1

(***************************************************************************)
(* A stream whose API never fails: the handler is initialized, receives up *)
(* to MaxStreamChunks fragments and is finalized up to MaxStreamFinalize   *)
(* times, in any order and at any of the clock's values.                   *)
(***************************************************************************)
MaxStreamChunks == 3
MaxStreamFinalize == 2

\* the fragments 1..n in one text
Fragments(n) == [k \in 1..n |-> Fragment(k)]

InitStream ==
    /\ now = LimiterClockStep
    /\ bucket = TokenBucket_new(now)
    /\ ret = NoCall
    /\ consecutiveFailures = 0
    /\ limiters = <<AdvancedRateLimiter_new(now, MaxQueueSize)>>
    /\ handler = [TelegramStreamHandler_new EXCEPT
                      !.caps = Calls(MaxStreamChunks, 0, 0, MaxStreamFinalize, 0)]
    /\ sink = Sink_new({}, 0)
    /\ manager = StreamStateManager_new(MaxSessionAge, MaxInactiveDuration,
                                        MaxSessionsPerUser)

NextStream ==
    \/ HandlerClockAdvance
    \/ Initialize
    \/ OnStreamChunk
    \/ Finalize
    \/ \E x \in handler.tasks : QueueDelayDone(x.id)
    \/ \E call \in sink.calls : SinkSucceeds(call)
    \/ \E i \in DOMAIN limiters : \E l \in limiters[i].loops :
           HandlerThrottleDone(i, l.id)
    \/ \E i \in DOMAIN limiters : \E l \in limiters[i].loops :
           HandlerProcessNext(i, l.id)

SpecStream == InitStream /\ [][NextStream]_vars

\* the handler has been finalized, finalize() has returned, and nothing is
\* running or in flight
StreamEnded ==
    /\ handler.sessionId # 0
    /\ handler.finalizes > 0
    /\ handler.tasks = {}
    /\ sink.calls = {}

(***************************************************************************)
(* C21, as the claim has it: onStreamChunk submits an update only when at  *)
(* least minUpdateInterval has passed since the last update was submitted, *)
(* and an update that is submitted carries every fragment queued before    *)
(* it, so that none stays in the queue.                                    *)
(***************************************************************************)
UpdatesSpacedAndCoalesced ==
    [][Len(handler'.updates) > Len(handler.updates) =>
           /\ (/\ handler'.chunks > handler.chunks
               /\ Len(handler.updates) > 0)
                  => now - handler.updates[Len(handler.updates)].at
                         >= MinUpdateInterval
           /\ handler'.updateQueue = <<>>]_vars

(***************************************************************************)
(* C22, as the claim has it: when the fragments arrive and the handler is  *)
(* finalized all within minUpdateInterval of initialize() and the API      *)
(* never fails, the API gets one request in all, a sendMessage with the    *)
(* text of all the fragments, and no editMessageText.                      *)
(***************************************************************************)
BurstSentAsOneCreate ==
    (/\ StreamEnded
     /\ now = LimiterClockStep
     /\ handler.chunks > 0
     /\ handler.lateChunks = 0)
        => /\ Len(sink.served) = 1
           /\ sink.served[1].method = "sendMessage"
           /\ sink.served[1].text =
                  MessageConverter_formatMarkdownForTelegram(
                      Fragments(handler.chunks))

\* how many times a fragment occurs in a text or in a queue
Occurrences(fragments, x) ==
    Cardinality({k \in DOMAIN fragments : fragments[k] = x})

(***************************************************************************)
(* C23, as the claim has it: as long as neither stop() nor dispose() has   *)
(* been called, every fragment that the handler has received occurs once   *)
(* in the accumulated text followed by the queue, and nothing else occurs  *)
(* there: no fragment is lost and none is duplicated, also after an update *)
(* has failed and its fragment has been taken back into the queue.         *)
(***************************************************************************)
FragmentsKept ==
    handler.stops = 0 =>
        \A k \in 1..2 :
            Occurrences(handler.currentText \o handler.updateQueue, Fragment(k))
                = Occurrences(Fragments(handler.chunks), Fragment(k))

\* the updates that finalize() calls have submitted
FinalizeUpdates ==
    {k \in DOMAIN handler.updates : handler.updates[k].entry = "finalize"}

\* finalize() has returned normally and no finalize() is running
FinalizeReturned ==
    /\ handler.sessionId # 0
    /\ manager.sessions[handler.sessionId].status = "completed"
    /\ \A x \in handler.tasks : x.entry # "finalize"

(***************************************************************************)
(* C24, as the claim has it: finalize() called on a stream that receives   *)
(* no fragment afterwards submits at most one update, and a second         *)
(* finalize() called after the first has returned submits none.            *)
(***************************************************************************)
FinalizeIdempotent ==
    /\ []((handler.finalizes <= 1 /\ handler.lateChunks = 0)
              => Cardinality(FinalizeUpdates) <= 1)
    /\ [][(/\ handler.finalizes = 1
           /\ handler'.finalizes = 2
           /\ handler.lateChunks = 0
           /\ FinalizeReturned)
              => handler'.updates = handler.updates]_vars

\* a finalize() has been called and none is running: it has returned or raised
FinalizeEnded ==
    /\ handler.sessionId # 0
    /\ handler.finalizes > 0
    /\ \A x \in handler.tasks : x.entry # "finalize"

(***************************************************************************)
(* C25, as the claim has it: when finalize() has ended, by returning or by *)
(* raising, and no fragment was received after it was called, the status   *)
(* of the session is completed and was finalizing just before, the queue   *)
(* is drained, and when there is text the last message version is the      *)
(* final text.                                                             *)
(***************************************************************************)
FinalizeEndsCompleted ==
    (FinalizeEnded /\ handler.lateChunks = 0) =>
        LET statuses == handler.statuses
            versions == manager.contexts[handler.sessionId].messageVersions
        IN  /\ manager.sessions[handler.sessionId].status = "completed"
            /\ Len(statuses) >= 2
            /\ statuses[Len(statuses) - 1] = "finalizing"
            /\ handler.updateQueue = <<>>
            /\ handler.currentText # <<>> =>
                   /\ Len(versions) > 0
                   /\ versions[Len(versions)].content = handler.currentText

(***************************************************************************)
(* A stream that is stopped: the handler is initialized, receives up to    *)
(* MaxChunks fragments, and stop() or dispose() is called once, at any     *)
(* moment; the API never fails.                                            *)
(***************************************************************************)
MaxStop == 1

InitStop ==
    /\ now = LimiterClockStep
    /\ bucket = TokenBucket_new(now)
    /\ ret = NoCall
    /\ consecutiveFailures = 0
    /\ limiters = <<AdvancedRateLimiter_new(now, MaxQueueSize)>>
    /\ handler = [TelegramStreamHandler_new EXCEPT
                      !.caps = Calls(MaxChunks, 0, 0, 0, MaxStop)]
    /\ sink = Sink_new({}, 0)
    /\ manager = StreamStateManager_new(MaxSessionAge, MaxInactiveDuration,
                                        MaxSessionsPerUser)

NextStop ==
    \/ HandlerClockAdvance
    \/ Initialize
    \/ OnStreamChunk
    \/ Stop
    \/ Dispose
    \/ \E x \in handler.tasks : RecoveryDelayDone(x.id)
    \/ \E call \in sink.calls : SinkSucceeds(call)
    \/ \E i \in DOMAIN limiters : \E l \in limiters[i].loops :
           HandlerProcessNext(i, l.id)

SpecStop == InitStop /\ [][NextStop]_vars

\* what the claim says stays as it is once the handler is stopped
Delivered ==
    [messageId |-> handler.messageId,
     lastSentText |-> handler.lastSentText,
     messageVersions |->
         IF handler.sessionId = 0
         THEN <<>>
         ELSE manager.contexts[handler.sessionId].messageVersions]

(***************************************************************************)
(* C26, as the claim has it: once stop() or dispose() has been called, the *)
(* handler is inactive and, when no fragment arrives afterwards, its queue *)
(* is empty; and an API request that was in flight may complete, but       *)
(* changes neither the handle of the remote message, nor the text last     *)
(* transmitted, nor the message versions.                                  *)
(***************************************************************************)
StoppedStaysStopped ==
    /\ [](handler.stops > 0 =>
              /\ ~handler.isActive
              /\ handler.lateChunks = 0 => handler.updateQueue = <<>>)
    /\ [][handler.stops > 0 => Delivered' = Delivered]_vars

\* the recoveries that have returned after making an API request of their own
RecoveriesWithCalls ==
    {k \in DOMAIN handler.recoveries : handler.recoveries[k].recovery.calls # <<>>}

\* the executions that limiter i has started again after a failure
LimiterRetries(i) == limiters[i].executions - Len(limiters[i].startOrder)

(***************************************************************************)
(* C27, as the claim has it: the errorCount of the handler's session       *)
(* counts every API request that has failed, and its retryCount counts     *)
(* every retry: the executions that a limiter has started again and the    *)
(* recoveries that have made a request again, those that succeeded         *)
(* included.                                                               *)
(***************************************************************************)
ErrorsAndRetriesCounted ==
    handler.sessionId # 0 =>
        LET context == manager.contexts[handler.sessionId]
        IN  /\ context.errorCount >= sink.failures
            /\ context.retryCount >= Cardinality(RecoveriesWithCalls)
            /\ \A i \in DOMAIN limiters : context.retryCount >= LimiterRetries(i)

\* every request that a limiter has rejected failed with 429 Too Many Requests
OnlyRateLimited ==
    \A i \in DOMAIN limiters :
        \A k \in DOMAIN limiters[i].results :
            limiters[i].results[k].status = "rejected"
                => limiters[i].results[k].error = MsgTooManyRequests

\* the API has accepted a request that carries text, formatted or plain
DeliveredText(text) ==
    \E k \in DOMAIN sink.served :
        sink.served[k].text \in {text, PlainText(text)}

(***************************************************************************)
(* C28, as the claim has it: when the requests of an update fail with 429  *)
(* Too Many Requests, a failure that is retried, fewer times than the      *)
(* retries that the class allows, the update is not reported as failed     *)
(* and its text is delivered.                                              *)
(***************************************************************************)
TransientFailureRecovered ==
    OnlyRateLimited =>
        \A r \in Recoveries :
            (/\ r.recovery.strategy = "retry"
             /\ r.recovery.retryCount < r.recovery.maxRetries
             /\ sink.failures < r.recovery.maxRetries)
                => /\ r.result.success
                   /\ DeliveredText(r.recovery.currentText)

\* a text as the API gets it: formatted for Telegram, or plain after a request
\* with Markdown has failed
AsSent(content) ==
    {content,
     MessageConverter_formatMarkdownForTelegram(content),
     PlainText(content)}

\* the accepted requests on message id, in the order of their acceptance
ServedOn(id) ==
    SelectSeq(sink.served, LAMBDA call : call.messageId = id)

(***************************************************************************)
(* C29, as the claim has it, for a stream that receives no fragment after  *)
(* finalize() is called: a message version is recorded as sent only when   *)
(* the API has accepted a request that carries its content (as formatted   *)
(* for the API) on the message whose id the version records; and when      *)
(* finalize() has returned normally on a text that is not empty, the       *)
(* remote message holds the final text.                                    *)
(***************************************************************************)
VersionsAreDelivered ==
    handler.sessionId # 0 =>
        LET versions == manager.contexts[handler.sessionId].messageVersions
            final == ServedOn(handler.messageId)
        IN  /\ \A k \in DOMAIN versions :
                   (versions[k].sentToTelegram /\ handler.lateChunks = 0) =>
                       \E j \in DOMAIN sink.served :
                           /\ sink.served[j].messageId = versions[k].telegramMessageId
                           /\ sink.served[j].text \in AsSent(versions[k].content)
            /\ (/\ FinalizeReturned
                /\ handler.finalizes = 1
                /\ handler.lateChunks = 0
                /\ handler.tasks = {}
                /\ handler.currentText # <<>>)
                   => /\ handler.messageId # 0
                      /\ Len(final) > 0
                      /\ final[Len(final)].text \in AsSent(handler.currentText)

(***************************************************************************)
(* The text of an update, lines 1621-1642 of updateMessage: currentText is *)
(* truncated to maxMessageLength and then formatted for Telegram.  Here a  *)
(* text is a sequence of characters.  The handler is configured with a     *)
(* maxMessageLength of MaxMessageLength characters (the default is 4096);  *)
(* the 15 and the 200 of the code are kept as they are.                    *)
(***************************************************************************)
MaxMessageLength == 230

\* "\n\n...(消息过长，已截断)", 15 characters
TruncationMarker ==
    <<"\n", "\n", ".", ".", ".", "(", "U+6D88", "U+606F", "U+8FC7", "U+957F",
      "U+FF0C", "U+5DF2", "U+622A", "U+65AD", ")">>

\* the least element of a set of positions, 0 when there is none
First(positions) ==
    IF positions = {} THEN 0
    ELSE CHOOSE p \in positions : \A q \in positions : p <= q

\* text.substring(0, n).lastIndexOf("\n"), an index from 0, -1 when none
LastNewlineIndex(text, n) ==
    LET found == {p \in 1..Min(n, Len(text)) : text[p] = "\n"}
    IN  IF found = {} THEN -1
        ELSE (CHOOSE p \in found : \A q \in found : q <= p) - 1

\* text.substring(0, n): a negative n counts as 0
Substring0(text, n) == SubSeq(text, 1, Min(Max(n, 0), Len(text)))

\* updateMessage, lines 1623-1639
TelegramStreamHandler_truncate(text, maxMessageLength) ==
    IF Len(text) > maxMessageLength
    THEN LET truncateLength == maxMessageLength - 15
             truncatedAtNewline == LastNewlineIndex(text, truncateLength)
             cutPoint == IF truncatedAtNewline > truncateLength - 200
                         THEN truncatedAtNewline
                         ELSE truncateLength
         IN  Substring0(text, cutPoint) \o TruncationMarker
    ELSE text

\* the character of a code fence, written as its code point
Backtick == "U+0060"

\* ``` at position p
FenceAt(text, p) ==
    /\ p + 2 <= Len(text)
    /\ text[p] = Backtick /\ text[p + 1] = Backtick /\ text[p + 2] = Backtick

\* \w, for the characters of the texts below
WordCharacter(c) == c = "x"

\* formatMarkdownForTelegram, lines 182-184: ```(\w+)?\n?([\s\S]*?)``` becomes
\* ```lang\ncode```, from position p on
RECURSIVE FormatCodeBlocks(_, _)
FormatCodeBlocks(text, p) ==
    LET open == First({q \in p..Len(text) : FenceAt(text, q)})
        lang == open + 3
        langEnd == First({q \in lang..(Len(text) + 1) :
                              q > Len(text) \/ ~WordCharacter(text[q])})
        code == IF langEnd <= Len(text) /\ text[langEnd] = "\n"
                THEN langEnd + 1 ELSE langEnd
        close == First({q \in code..Len(text) : FenceAt(text, q)})
    IN  IF open = 0 \/ close = 0
        THEN SubSeq(text, p, Len(text))
        ELSE SubSeq(text, p, open + 2) \o SubSeq(text, lang, langEnd - 1)
                 \o <<"\n">> \o SubSeq(text, code, close + 2)
                 \o FormatCodeBlocks(text, close + 3)

\* lines 189-194: mark mark inner mark mark becomes mark inner mark, where
\* inner is the shortest run of at least least characters, none of them excluded
RECURSIVE FormatPairs(_, _, _, _, _)
FormatPairs(text, p, mark, excluded, least) ==
    LET pairAt(q) == q + 1 <= Len(text) /\ text[q] = mark /\ text[q + 1] = mark
        closes(o) == {q \in (o + 2 + least)..Len(text) :
                          /\ pairAt(q)
                          /\ \A k \in (o + 2)..(q - 1) : text[k] \notin excluded}
        open == First({o \in p..Len(text) : pairAt(o) /\ closes(o) # {}})
        close == First(closes(open))
    IN  IF open = 0
        THEN SubSeq(text, p, Len(text))
        ELSE SubSeq(text, p, open) \o SubSeq(text, open + 2, close)
                 \o FormatPairs(text, close + 2, mark, excluded, least)

\* formatMarkdownForTelegram on characters: code blocks, inline code (replaced
\* by itself), bold, strikethrough
MessageConverter_formatMarkdownForTelegram_chars(content) ==
    LET blocks == FormatCodeBlocks(content, 1)
        bold == FormatPairs(blocks, 1, "*", {"*", "\n"}, 1)
    IN  FormatPairs(bold, 1, "~", {"\n"}, 0)

\* updateMessage, lines 1622-1642: the text that is handed to the API
TelegramStreamHandler_messageText(currentText, maxMessageLength) ==
    MessageConverter_formatMarkdownForTelegram_chars(
        TelegramStreamHandler_truncate(currentText, maxMessageLength))

\* the accumulated texts: length characters "x", with a code block ```x``` at
\* the start (fence), a bold **x** after it (bold), and a newline at index
\* newlineAt, counted from 0 (-1: none)
Text(d) ==
    [p \in 1..d.length |->
        CASE d.fence /\ p \in {1, 2, 3, 5, 6, 7} -> Backtick
          [] d.bold /\ p \in {8, 9, 11, 12} -> "*"
          [] p = d.newlineAt + 1 -> "\n"
          [] OTHER -> "x"]

TextLengths ==
    { MaxMessageLength - 1, MaxMessageLength, MaxMessageLength + 1,
      MaxMessageLength + 20 }

NewlineIndexes ==
    { -1, MaxMessageLength - 216, MaxMessageLength - 215, MaxMessageLength - 214,
      MaxMessageLength - 16, MaxMessageLength - 15 }

Texts ==
    [length : TextLengths, newlineAt : NewlineIndexes, fence : BOOLEAN,
     bold : BOOLEAN]

\* updateMessage computes the text of its request from currentText
UpdateMessageText ==
    /\ ret.op = "currentText"
    /\ ret' = Call("messageText", ret.arg,
                   TelegramStreamHandler_messageText(Text(ret.arg),
                                                     MaxMessageLength))
    /\ UNCHANGED <<now, bucket, consecutiveFailures, pipelineVars>>

InitTruncate ==
    /\ now = 0
    /\ bucket = TokenBucket_new(now)
    /\ \E d \in Texts : ret = Call("currentText", d, <<>>)
    /\ consecutiveFailures = 0
    /\ limiters = <<>>
    /\ handler = NoHandler
    /\ sink = NoSink
    /\ manager = NoManager

NextTruncate == UpdateMessageText

SpecTruncate == InitTruncate /\ [][NextTruncate]_vars

(***************************************************************************)
(* C30, as the claim has it: the text handed to the API is never longer    *)
(* than maxMessageLength; a text that is longer is cut at its last newline *)
(* within the first maxMessageLength - 15 characters when that newline is  *)
(* among the last 200 characters of that prefix, and otherwise after       *)
(* maxMessageLength - 15 characters, and the marker is appended.           *)
(***************************************************************************)
MessageTextWithinLimit ==
    ret.op = "messageText" =>
        LET text == Text(ret.arg)
            prefix == MaxMessageLength - 15
            newline == LastNewlineIndex(text, prefix)
            cut == IF newline # -1 /\ newline >= prefix - 200
                   THEN newline ELSE prefix
        IN  /\ Len(ret.value) <= MaxMessageLength
            /\ Len(text) > MaxMessageLength =>
                   ret.value = MessageConverter_formatMarkdownForTelegram_chars(
                                   SubSeq(text, 1, cut) \o TruncationMarker)

(***************************************************************************)
(* The recovery counter on its own: a stream of fragments whose requests   *)
(* the API rejects with 429 Too Many Requests, a failure that the limiter  *)
(* does not retry and that the analyzer classes as rate_limit, strategy    *)
(* retry.                                                                  *)
(***************************************************************************)
MaxRetryChunks == 2
MaxRetryFailures == 4

RetryErrors == {MsgTooManyRequests}

InitRetry ==
    /\ now = LimiterClockStep
    /\ bucket = TokenBucket_new(now)
    /\ ret = NoCall
    /\ consecutiveFailures = 0
    /\ limiters = <<AdvancedRateLimiter_new(now, MaxQueueSize)>>
    /\ handler = [TelegramStreamHandler_new
                     EXCEPT !.caps = Calls(MaxRetryChunks, 0, 0, 0, 0)]
    /\ sink = Sink_new(RetryErrors, MaxRetryFailures)
    /\ manager = StreamStateManager_new(MaxSessionAge, MaxInactiveDuration,
                                        MaxSessionsPerUser)

NextRetry ==
    \/ HandlerClockAdvance
    \/ Initialize
    \/ OnStreamChunk
    \/ \E x \in handler.tasks : RecoveryDelayDone(x.id)
    \/ \E call \in sink.calls : SinkSucceeds(call)
    \/ \E call \in sink.calls, error \in sink.errors, jitter \in LimiterJitters :
           SinkFails(call, error, jitter)
    \/ \E i \in DOMAIN limiters : \E l \in limiters[i].loops :
           HandlerProcessNext(i, l.id)

SpecRetry == InitRetry /\ [][NextRetry]_vars

\* the recoveries for the key of recovery k that returned before it, failed
FailedBefore(k) ==
    {j \in 1..(k - 1) :
        /\ handler.recoveries[j].recovery.messageId
               = handler.recoveries[k].recovery.messageId
        /\ ~handler.recoveries[j].result.success}

\* the RETRY recoveries for the key of recovery k that made a request and
\* returned no later than k, with no successful recovery for the key between
RetriesSinceSuccess(k) ==
    {j \in 1..k :
        /\ handler.recoveries[j].recovery.messageId
               = handler.recoveries[k].recovery.messageId
        /\ handler.recoveries[j].recovery.strategy = "retry"
        /\ handler.recoveries[j].recovery.calls # <<>>
        /\ \A i \in j..(k - 1) :
               handler.recoveries[i].recovery.messageId
                   = handler.recoveries[k].recovery.messageId
                       => ~handler.recoveries[i].result.success}

\* no recovery was told of more failures than recoveries for its key had failed
RetryCountIsFailures ==
    \A k \in DOMAIN handler.recoveries :
        handler.recoveries[k].recovery.retryCount <= Cardinality(FailedBefore(k))

\* the RETRY recoveries that make a request stay within the class's max retries
RetriesWithinMax ==
    \A k \in DOMAIN handler.recoveries :
        Cardinality(RetriesSinceSuccess(k))
            <= handler.recoveries[k].recovery.maxRetries

(***************************************************************************)
(* C31, as the claim has it: the retryCount that a recovery is given is    *)
(* the number of recoveries for its (chat, message) key that have failed   *)
(* in a row, so it is never more than the number of recoveries for the key *)
(* that failed before it; and for one key the RETRY recoveries that make a *)
(* request with no successful recovery between them are never more than    *)
(* the max retries of the class.                                           *)
(***************************************************************************)
RetryCounterAsClaimed == RetryCountIsFailures /\ RetriesWithinMax

(***************************************************************************)
(* SpecLimiterLive: one AdvancedRateLimiter driven by execute() and        *)
(* dispose() calls, with the scheduling of the runtime: an operation that  *)
(* was called returns or throws, a timer that was set fires, and an async  *)
(* function whose await has completed goes on.                             *)
(***************************************************************************)
\* the number of dispose() calls made on a limiter driven on its own
MaxDispose == 1

\* the loops of limiter L that wait for a timer that is not yet due at t
Sleeping(L, t) == { l \in L.loops : l.pc \in {"throttle", "backoff"} /\ l.wakeAt > t }

\* time passes until the next timer of limiter i is due
TimerDue(i) ==
    /\ Sleeping(limiters[i], now) # {}
    /\ \E l \in Sleeping(limiters[i], now) :
           /\ \A m \in Sleeping(limiters[i], now) : l.wakeAt <= m.wakeAt
           /\ now' = l.wakeAt
    /\ UNCHANGED <<standaloneVars, pipelineVars>>

\* the requests that limiter L still holds: in its queue, or in a loop that
\* has not yet settled them
InFlight(L) == { l.request.id : l \in { m \in L.loops : m.pc # "next" } }
Held(L) == QueuedIds(L.requestQueue) \cup InFlight(L)

\* a caller calls dispose(); consecutiveFailures of the stand-alone strategy
\* counts the calls, and ret keeps the requests that were queued and those
\* that were in flight when the last one was made
LimiterDispose(i) ==
    /\ consecutiveFailures < MaxDispose
    /\ consecutiveFailures' = consecutiveFailures + 1
    /\ ret' = Call("dispose", QueuedIds(limiters[i].requestQueue),
                   InFlight(limiters[i]))
    /\ limiters' = [limiters EXCEPT ![i] = AdvancedRateLimiter_dispose(@, now)]
    /\ UNCHANGED <<now, bucket, handlerVars>>

InitLimiterLive ==
    /\ now = 0
    /\ bucket = TokenBucket_new(now)
    /\ ret = Call("none", {}, {})
    /\ consecutiveFailures = 0
    /\ limiters = <<AdvancedRateLimiter_new(now, MaxQueueSize)>>
    /\ handler = NoHandler
    /\ sink = NoSink
    /\ manager = NoManager

\* the operation that limiter i executes returns or throws
OperationEnds(i) ==
    \/ \E l \in limiters[i].loops : OperationSucceeds(i, l.id)
    \/ \E l \in limiters[i].loops, error \in LimiterErrors, jitter \in LimiterJitters :
           OperationFails(i, l.id, error, jitter)

\* a timer of limiter i fires
TimerFires(i) ==
    \/ \E l \in limiters[i].loops : ThrottleDone(i, l.id)
    \/ \E l \in limiters[i].loops : BackoffDone(i, l.id)

NextLimiterLive ==
    \/ TimerDue(1)
    \/ \E priority \in {NORMAL, HIGH} : Execute(1, priority)
    \/ LimiterDispose(1)
    \/ OperationEnds(1)
    \/ TimerFires(1)
    \/ \E l \in limiters[1].loops : ProcessNext(1, l.id)

SpecLimiterLive ==
    /\ InitLimiterLive
    /\ [][NextLimiterLive]_vars
    /\ WF_vars(TimerDue(1))
    /\ WF_vars(OperationEnds(1))
    /\ WF_vars(TimerFires(1))
    /\ WF_vars(\E l \in limiters[1].loops : ProcessNext(1, l.id))

\* what L holds is pending, what is pending L holds, and a queue that is not
\* empty has a processing loop
HeldIsPending ==
    \A i \in DOMAIN limiters :
        /\ \A id \in DOMAIN limiters[i].results :
               (limiters[i].results[id] = Pending) <=> (id \in Held(limiters[i]))
        /\ limiters[i].requestQueue # <<>> =>
               limiters[i].processing /\ limiters[i].loops # {}

\* a request that was submitted is settled in the end
SubmittedIsSettled ==
    \A id \in 1..MaxSubmit :
        (id \in DOMAIN limiters[1].results)
            ~> (/\ id \in DOMAIN limiters[1].results
                /\ limiters[1].results[id].status \in {"resolved", "rejected"})

(***************************************************************************)
(* C32: every request submitted to execute() is settled exactly once.  A   *)
(* pending request is held by the limiter in one place, its queue or the   *)
(* loop that runs it, and a settled one is held nowhere, so that it is not *)
(* settled again; a queue that is not empty has a processing loop; and,    *)
(* when operations end and timers fire, every request is resolved or       *)
(* rejected in the end, whatever else is submitted, retried or disposed.   *)
(***************************************************************************)
EverySubmissionSettled == []HeldIsPending /\ SubmittedIsSettled

\* a request that waited in the backoff of a retry while dispose() was called
\* has been resolved
EverySubmissionSettledWitness ==
    /\ consecutiveFailures = MaxDispose
    /\ \E id \in DOMAIN limiters[1].results :
           /\ limiters[1].results[id].status = "resolved"
           /\ limiters[1].failures > 0
           /\ \E other \in DOMAIN limiters[1].results :
                  limiters[1].results[other] = Rejected(MsgDisposed)

(***************************************************************************)
(* C33, as the claim has it: a request that the limiter has accepted, one  *)
(* that it has started to execute, is rejected only with the failure of    *)
(* its own operation or with the disposal error, never with "Request queue *)
(* is full"; and a failure that is retried leads to another execution: the *)
(* request that comes out of a backoff is in the queue.                    *)
(***************************************************************************)
AcceptedNeverQueueFull ==
    /\ [](\A i \in DOMAIN limiters :
              \A k \in 1..Len(limiters[i].startOrder) :
                  limiters[i].results[limiters[i].startOrder[k]]
                      # Rejected(MsgQueueFull))
    /\ [][\A i \in DOMAIN limiters :
              \A l \in limiters[i].loops :
                  (/\ l.pc = "backoff"
                   /\ \E m \in limiters'[i].loops : m.id = l.id /\ m.pc = "next")
                      => l.request.id \in QueuedIds(limiters'[i].requestQueue)]_vars

\* text is the first fragments of all, in their order
IsPrefix(text, all) ==
    /\ Len(text) <= Len(all)
    /\ \A k \in 1..Len(text) : text[k] = all[k]

\* the accumulated text is a prefix of the fragments received, in arrival order
TextIsPrefix ==
    (handler.sessionId # 0 /\ handler.lateChunks = 0) =>
        IsPrefix(handler.currentText, Fragments(handler.chunks))

\* after finalize() the accumulated text is all the fragments, in arrival order
FinalTextInOrder ==
    (FinalizeReturned /\ handler.lateChunks = 0) =>
        handler.currentText = Fragments(handler.chunks)

(***************************************************************************)
(* C34, as the claim has it: at every moment the accumulated text is the   *)
(* concatenation, in arrival order, of a prefix of the fragments received  *)
(* since initialize, and once finalize() has returned it is the            *)
(* concatenation of all of them in arrival order.  Fragments that arrive   *)
(* during or after finalize() are left aside.                              *)
(***************************************************************************)
FragmentOrderKept == TextIsPrefix /\ FinalTextInOrder

(***************************************************************************)
(* C35, as the claim has it: lastSentText is the text of the last request  *)
(* that the API has accepted for the session, and is empty when it has     *)
(* accepted none.  A request that was accepted as plain text, after the    *)
(* Markdown form of the same text was refused, counts as that text.        *)
(***************************************************************************)
LastSentIsRemoteText ==
    handler.sessionId # 0 =>
        IF sink.served = <<>>
        THEN handler.lastSentText = <<>>
        ELSE PlainText(handler.lastSentText)
                 = PlainText(sink.served[Len(sink.served)].text)

\* the requests of a method that the API has accepted
ServedBy(method) == {k \in DOMAIN sink.served : sink.served[k].method = method}

\* a RECREATE recovery has started or returned
Recreating ==
    \/ \E r \in Recoveries : r.recovery.strategy = "recreate_message"
    \/ \E x \in handler.tasks :
           x.recovery # NoRecovery /\ x.recovery.strategy = "recreate_message"

(***************************************************************************)
(* C36, as the claim has it: as long as no RECREATE recovery runs, the     *)
(* session creates its remote message at most once: a sendMessage request  *)
(* is in flight only while the handler holds no message id, and the API    *)
(* has accepted at most one sendMessage.                                   *)
(***************************************************************************)
CreatesOnce ==
    (handler.sessionId # 0 /\ ~Recreating) =>
        /\ \A call \in sink.calls :
               call.method = "sendMessage" => handler.messageId = 0
        /\ Cardinality(ServedBy("sendMessage")) <= 1

(***************************************************************************)
(* SpecManagerMaps: the manager of SpecStateManager, which may also be     *)
(* disposed at any moment and used again afterwards.                       *)
(***************************************************************************)
\* dispose, lines 476-477: cleanupSession for every stored session
StreamStateManager_dispose(M) == CleanupAll(M, DOMAIN M.sessions)

ManagerDispose ==
    /\ manager' = StreamStateManager_dispose(manager)
    /\ ret' = Call("dispose", 0, 0)
    /\ UNCHANGED <<now, bucket, consecutiveFailures, limiters, handler, sink>>

NextManagerMaps ==
    \/ ManagerClockAdvance
    \/ \E userId \in ManagerUsers : CreateSession(userId)
    \/ \E sessionId \in SessionIds, status \in LifecycleStatuses :
           UpdateSessionStatus(sessionId, status)
    \/ \E sessionId \in SessionIds : CleanupSession(sessionId)
    \/ PerformCleanup
    \/ ManagerDispose

SpecManagerMaps == InitStateManager /\ [][NextManagerMaps]_vars

(***************************************************************************)
(* C37: the three maps of the manager agree.  The session map and the      *)
(* context map have the same keys; a session id is in the set of an owner  *)
(* exactly when the session is stored and that owner is its user; and no   *)
(* owner has an entry with an empty set.                                   *)
(***************************************************************************)
MapsConsistent ==
    /\ DOMAIN manager.sessions = DOMAIN manager.contexts
    /\ \A userId \in DOMAIN manager.userSessions :
           /\ manager.userSessions[userId] # {}
           /\ \A id \in manager.userSessions[userId] :
                  /\ id \in DOMAIN manager.sessions
                  /\ manager.sessions[id].userId = userId
    /\ \A id \in DOMAIN manager.sessions :
           /\ manager.sessions[id].userId \in DOMAIN manager.userSessions
           /\ id \in manager.userSessions[manager.sessions[id].userId]

\* three sessions have been created, one of them has been removed again, and
\* the sessions of two owners are stored
MapsConsistentWitness ==
    /\ ret.op = "createSession"
    /\ manager.generated = MaxGenerated
    /\ DOMAIN manager.userSessions = ManagerUsers
    /\ Cardinality(DOMAIN manager.sessions) = 2

\* a step that is a call of recordError on a stored session: the count grows
\* by one, and the status is error if the count is now above 3 and is left
\* as it was otherwise
RecordErrorStep ==
    (ret'.op = "recordError" /\ ret'.arg \in DOMAIN manager.contexts) =>
        LET id == ret'.arg IN
        /\ ret'.value = 1
        /\ manager'.contexts[id].errorCount = manager.contexts[id].errorCount + 1
        /\ manager'.sessions[id].status =
               IF manager'.contexts[id].errorCount > 3
               THEN "error"
               ELSE manager.sessions[id].status

\* a step that is a call for a session id that is not stored returns false or
\* null (0) and leaves the manager as it was
UnknownSessionStep ==
    (/\ ret'.op \in {"recordChunk", "recordError", "recordRetry",
                     "addMessageVersion", "updateSessionStatus"}
     /\ ret'.arg \notin DOMAIN manager.sessions) =>
        /\ ret'.value = 0
        /\ manager' = manager

(***************************************************************************)
(* C38: recordError sets the status of a session to error exactly when the *)
(* error count after the increment is above 3, and leaves the status as it *)
(* was for the first three errors: when no caller passes the status error, *)
(* a session in error has more than 3 errors.  recordChunk, recordError,   *)
(* recordRetry, addMessageVersion and updateSessionStatus for a session id *)
(* that is not stored return false or null and change nothing.             *)
(***************************************************************************)
ErrorAfterThreeErrors ==
    /\ [](\A id \in DOMAIN manager.sessions :
              manager.sessions[id].status = "error"
                  => manager.contexts[id].errorCount > 3)
    /\ [][RecordErrorStep /\ UnknownSessionStep]_vars

\* the fourth error of a session that was paused has been recorded
ErrorAfterThreeErrorsWitness ==
    /\ ret.op = "recordError"
    /\ ret.value = 1
    /\ manager.contexts[ret.arg].errorCount = 4
    /\ manager.sessions[ret.arg].status = "error"

\* a step that is a call of dispose(): the queue is emptied, the requests that
\* were in it are rejected with the disposal error, and no other is settled
DisposeStep ==
    consecutiveFailures' = consecutiveFailures + 1 =>
        \A i \in DOMAIN limiters :
            /\ limiters'[i].requestQueue = <<>>
            /\ \A id \in DOMAIN limiters[i].results :
                   limiters'[i].results[id] =
                       IF id \in QueuedIds(limiters[i].requestQueue)
                       THEN Rejected(MsgDisposed)
                       ELSE limiters[i].results[id]

\* the requests that were queued at the last dispose() stay rejected with the
\* disposal error and are not taken up again
DisposedNotExecuted ==
    ret.op = "dispose" =>
        \A id \in ret.arg :
            /\ limiters[1].results[id] = Rejected(MsgDisposed)
            /\ id \notin Held(limiters[1])

\* the requests that were in flight at the last dispose() are pending or
\* settled with the result of their own operation
InFlightOwnResult ==
    ret.op = "dispose" =>
        \A id \in ret.value :
            \/ limiters[1].results[id].status \in {"pending", "resolved"}
            \/ /\ limiters[1].results[id].status = "rejected"
               /\ limiters[1].results[id].error \in LimiterErrors

(***************************************************************************)
(* C39, as the claim has it: dispose() rejects every queued request with   *)
(* the disposal error and empties the queue; none of those requests is     *)
(* executed afterwards; and the request that the limiter was running when  *)
(* dispose() was called is settled with the result of its own operation.   *)
(***************************************************************************)
DisposeRejectsPending ==
    /\ [][DisposeStep]_vars
    /\ [](DisposedNotExecuted /\ InFlightOwnResult)

(***************************************************************************)
(* A stream that is paused and resumed: the handler is initialized, may be *)
(* paused and resumed once, and receives up to MaxPauseChunks fragments at *)
(* any moment; the API refuses up to MaxPauseFailures requests with an     *)
(* error that neither the limiter nor a recovery retries.                  *)
(***************************************************************************)
MaxPauseChunks == 3
MaxPauseFailures == 2

PauseErrors == {MsgNoRights}

InitPause ==
    /\ now = LimiterClockStep
    /\ bucket = TokenBucket_new(now)
    /\ ret = NoCall
    /\ consecutiveFailures = 0
    /\ limiters = <<AdvancedRateLimiter_new(now, MaxQueueSize)>>
    /\ handler = [TelegramStreamHandler_new
                     EXCEPT !.caps = Calls(MaxPauseChunks, 1, 1, 0, 0)]
    /\ sink = Sink_new(PauseErrors, MaxPauseFailures)
    /\ manager = StreamStateManager_new(MaxSessionAge, MaxInactiveDuration,
                                        MaxSessionsPerUser)

NextPause ==
    \/ HandlerClockAdvance
    \/ Initialize
    \/ OnStreamChunk
    \/ Pause
    \/ Resume
    \/ \E x \in handler.tasks : QueueDelayDone(x.id)
    \/ \E call \in sink.calls : SinkSucceeds(call)
    \/ \E call \in sink.calls, error \in sink.errors, jitter \in LimiterJitters :
           SinkFails(call, error, jitter)
    \/ \E i \in DOMAIN limiters : \E l \in limiters[i].loops :
           HandlerThrottleDone(i, l.id)
    \/ \E i \in DOMAIN limiters : \E l \in limiters[i].loops :
           HandlerProcessNext(i, l.id)

SpecPause == InitPause /\ [][NextPause]_vars

\* a step that is an onStreamChunk call on a paused handler: the fragment is
\* appended to the queue, and no update is submitted and no request made
PausedChunkStep ==
    (handler.sessionId # 0 /\ handler.isPaused
        /\ handler'.chunks = handler.chunks + 1) =>
        /\ handler'.updateQueue
               = Append(handler.updateQueue, Fragment(handler.chunks + 1))
        /\ handler'.currentText = handler.currentText
        /\ handler'.updates = handler.updates
        /\ handler'.tasks = handler.tasks
        /\ sink' = sink
        /\ limiters' = limiters

\* a step that is a resume() call: the handler is not paused and the status
\* of its session is active
ResumeStep ==
    (handler.sessionId # 0 /\ handler'.resumes = handler.resumes + 1) =>
        /\ ~handler'.isPaused
        /\ manager'.sessions[handler.sessionId].status = "active"

\* every update so far was submitted by resume(): no onStreamChunk call found
\* the handler ready for an update of its own
OnlyResumeUpdates ==
    /\ \A k \in DOMAIN handler.updates : handler.updates[k].entry = "resume"
    /\ \A x \in handler.tasks : x.entry = "resume"

\* the fragments are in the text and behind it in the queue in arrival order,
\* and the k-th update carries the first k of them
QueueDeliveredInOrder ==
    (handler.sessionId # 0 /\ OnlyResumeUpdates) =>
        /\ handler.currentText \o handler.updateQueue = Fragments(handler.chunks)
        /\ \A k \in DOMAIN handler.updates :
               handler.updates[k].text
                   = MessageConverter_formatMarkdownForTelegram(Fragments(k))
        /\ (handler.tasks = {} /\ handler.recoveries # <<>>) =>
               /\ ~handler.recoveries[1].result.success
               /\ Len(handler.currentText) = Len(handler.updates) - 1

=============================================================================
